---------------------------- MODULE Spec2Model ----------------------------
(***************************************************************************)
(* A model of the season-diagnosis data engine (src/src/data_engine.py):   *)
(* the game-index slicer, the metric aggregator, the trend classifier,     *)
(* the diagnosis assembler and the get_full_analysis pipeline; and of the  *)
(* narrative generator (src/src/narrative_logic.py), the game fetcher      *)
(* (src/src/data_fetcher.py), the key-moment extractor                     *)
(* (src/src/narrative_engine.py) and the season-diagnosis page             *)
(* (src/app.py).                                                           *)
(*                                                                         *)
(* Representation.                                                         *)
(*  - An optional value (None / NaN in the code) is the empty tuple <<>>;  *)
(*    a present value v is the one-element tuple <<v>>.                    *)
(*  - A number with decimals is an integer count of hundredths (Scale),    *)
(*    babip and woba of thousandths (Scale3), as the code rounds them.     *)
(*  - A DataFrame is [columns |-> set of names, rows |-> sequence of       *)
(*    functions from the columns to the cells].                            *)
(*  - A call's outcome is [ok |-> TRUE, val |-> ...] when it returns and   *)
(*    [ok |-> FALSE, err |-> ...] when it raises.                          *)
(***************************************************************************)
EXTENDS Integers, Sequences, FiniteSets, TLC

VARIABLES
    pc,             \* position of the caller / of get_full_analysis
    trace,          \* the stages of get_full_analysis called so far
    lookup,         \* what playerid_lookup returns (key_mlbam values)
    provider,       \* what statcast_batter returns
    first_name,     \* get_full_analysis's arguments
    last_name,
    player_id,      \* locals of get_full_analysis
    df,
    early_df,
    mid_df,
    late_df,
    early_metrics,
    mid_metrics,
    late_metrics,
    diagnosis,      \* what get_full_analysis returns
    error,          \* the exception that reached the caller, None if none
    segment_df,     \* argument of a direct call of aggregate_metrics
    metrics,        \* its outcome
    early_val,      \* arguments of a direct call of _calculate_trend
    mid_val,
    late_val,
    trend,          \* its result
    api_key,        \* generate_season_narrative's arguments (with diagnosis)
    season_year,
    env_api_key,    \* os.getenv('OPENAI_API_KEY')
    genai_key,      \* the key genai was configured with, None if it was not
    requests,       \* the generate_content requests sent to the LLM
    narrative,      \* what generate_season_narrative returns
    quick_summary,  \* what generate_quick_summary returns
    team_code,      \* get_game_data's argument
    team_game_df,   \* what get_game_data returns
    top_n,          \* extract_key_moments's argument (with df)
    moments,        \* what extract_key_moments returns
    metadata,
    session_state,  \* st.session_state of the season-diagnosis page
    display         \* what the last run of the page rendered

\* the variables of narrative_logic.py, data_fetcher.py, narrative_engine.py
narrative_vars ==
    <<api_key, season_year, env_api_key, genai_key, requests, narrative,
      quick_summary>>
fetcher_vars == <<team_code, team_game_df>>
moment_vars == <<top_n, moments, metadata>>
\* the variables of app.py
ui_vars == <<session_state, display>>

vars == <<pc, trace, lookup, provider, first_name, last_name, player_id, df,
          early_df, mid_df, late_df, early_metrics, mid_metrics, late_metrics,
          diagnosis, error, segment_df, metrics, early_val, mid_val, late_val,
          trend, narrative_vars, fetcher_vars, moment_vars, ui_vars>>

-----------------------------------------------------------------------------
(* Bounds of the model *)

\* the streams have 0 .. MaxGames distinct game dates
MaxGames == 46
\* a window handed directly to aggregate_metrics has 0 .. MaxRows records
MaxRows == 3
\* a game handed to extract_key_moments has 0 .. MaxPlays records
MaxPlays == 3
\* the season-diagnosis page sends at most MaxReports requests to the LLM
MaxReports == 2

(* Constants of the program *)

\* if n_games < 30
MinGames == 30
\* "... 需至少 30 場" in the error message
RequiredGames == 30
\* game_dates[0:10], game_dates[-10:]
SegmentGames == 10
\* mid_center - 5, mid_center + 5
MidHalf == 5
\* valid_launch > 95
HardHitSpeed == 95
\* round(x, 2): values are kept in hundredths
Scale == 100
\* round(x, 3): babip and woba are kept in thousandths
Scale3 == 1000
\* abs(diff) < 1
TrendThreshold == 1

-----------------------------------------------------------------------------
(* Python and pandas primitives *)

None == <<>>
Some(v) == <<v>>
IsNone(x) == x = <<>>
Val(x) == x[1]

Ok(v) == [ok |-> TRUE, val |-> v]
Raise(e) == [ok |-> FALSE, err |-> e]

Min(a, b) == IF a < b THEN a ELSE b
Max(a, b) == IF a > b THEN a ELSE b
Abs(x) == IF x < 0 THEN 0 - x ELSE x

\* s[start:stop] of Python: negative indices count from the end, both ends
\* are clamped to the sequence (indices are 0-based, stop exclusive)
PySlice(s, start, stop) ==
    LET n  == Len(s)
        lo == IF start < 0 THEN Max(n + start, 0) ELSE Min(start, n)
        hi == IF stop < 0 THEN Max(n + stop, 0) ELSE Min(stop, n)
    IN  IF lo >= hi THEN <<>> ELSE [i \in 1..(hi - lo) |-> s[lo + i]]

\* round(num / den, k) as an integer count of 10^-k units, where num is
\* already multiplied by 10^k: the nearest integer, a tie going to the even
\* one (Python 3's round)
RoundDiv(num, den) ==
    LET q == (2 * num + den) \div (2 * den)
        tie == (2 * num + den) % (2 * den) = 0
    IN  IF tie /\ q % 2 = 1 THEN q - 1 ELSE q

RECURSIVE SumSeq(_)
SumSeq(s) == IF s = <<>> THEN 0 ELSE Head(s) + SumSeq(Tail(s))

RECURSIVE MaxSeq(_)
MaxSeq(s) == IF Len(s) = 1 THEN s[1] ELSE Max(Head(s), MaxSeq(Tail(s)))

Range(s) == {s[i] : i \in DOMAIN s}

\* pd.to_datetime on a game date <<year, month, day>>: a timestamp, ordered
\* as the calendar is
to_datetime(d) == d[1] * 10000 + d[2] * 100 + d[3]

\* Series.drop_duplicates().sort_values().reset_index(drop=True): the
\* distinct values in ascending order
SortedDistinct(s) ==
    LET S == Range(s)
    IN  [i \in 1..Cardinality(S) |->
            CHOOSE d \in S : Cardinality({e \in S : e < d}) = i - 1]


-----------------------------------------------------------------------------
(* Module A: the data slicer *)

\* df = df.copy(); df['game_date'] = pd.to_datetime(df['game_date'])
ConvertDates(frame) ==
    [columns |-> frame.columns,
     rows |-> [i \in DOMAIN frame.rows |->
                 [c \in frame.columns |->
                    IF c = "game_date" THEN to_datetime(frame.rows[i][c])
                    ELSE frame.rows[i][c]]]]

\* game_dates = df['game_date'].drop_duplicates().sort_values()...
GameDates(frame) ==
    SortedDistinct([i \in DOMAIN frame.rows |-> frame.rows[i]["game_date"]])

\* the f-string of the ValueError: it carries n_games and the literal 30
InsufficientSample(n_games) ==
    [type |-> "ValueError", msg |-> "insufficient sample",
     n_games |-> n_games, required |-> RequiredGames]

\* game_index_map = {date: idx ...}; df['game_index'] = df['game_date'].map(...)
WithGameIndex(frame, game_dates) ==
    [columns |-> frame.columns \cup {"game_index"},
     rows |-> [i \in DOMAIN frame.rows |->
                 [c \in frame.columns \cup {"game_index"} |->
                    IF c = "game_index"
                    THEN (CHOOSE k \in DOMAIN game_dates :
                            game_dates[k] = frame.rows[i]["game_date"]) - 1
                    ELSE frame.rows[i][c]]]]

\* df[df['game_date'].isin(dates)]
RowsOfDates(frame, dates) ==
    LET Keep(r) == r["game_date"] \in Range(dates)
    IN  [columns |-> frame.columns, rows |-> SelectSeq(frame.rows, Keep)]

\* early_dates = game_dates[0:10].tolist()
EarlyDates(game_dates) == PySlice(game_dates, 0, SegmentGames)

\* mutant of MidDates: the centre rounded up
MidDates_CentreUp(game_dates) ==
    LET mid_center == (Len(game_dates) + 1) \div 2
    IN  PySlice(game_dates, mid_center - MidHalf, mid_center + MidHalf)

\* mutant of MidDates: the end index included, game_dates[mid_start:mid_end + 1]
MidDates_Inclusive(game_dates) ==
    LET mid_center == Len(game_dates) \div 2
    IN  PySlice(game_dates, mid_center - MidHalf, mid_center + MidHalf + 1)

\* mid_center = n_games // 2; mid_dates = game_dates[mid_start:mid_end]
MidDates(game_dates) ==
    LET mid_center == Len(game_dates) \div 2
        mid_start == mid_center - MidHalf
        mid_end == mid_center + MidHalf
    IN  PySlice(game_dates, mid_start, mid_end)

\* mutant of LateDates: game_dates[-9:]
LateDates_Short(game_dates) ==
    PySlice(game_dates, 1 - SegmentGames, Len(game_dates))

\* mutant of LateDates: game_dates[-11:]
LateDates_Long(game_dates) ==
    PySlice(game_dates, 0 - SegmentGames - 1, Len(game_dates))

\* late_dates = game_dates[-10:].tolist()
LateDates(game_dates) == PySlice(game_dates, 0 - SegmentGames, Len(game_dates))

\* mutant of TooFewGames: 29 games pass
TooFewGames_OffByOne(n_games) == n_games < MinGames - 1

\* whether n_games is too small a sample
TooFewGames(n_games) == n_games < MinGames

\* slice_by_game_index(df): the three windows, or the ValueError
slice_by_game_index(frame) ==
    LET copy == ConvertDates(frame)
        game_dates == GameDates(copy)
        n_games == Len(game_dates)
        indexed == WithGameIndex(copy, game_dates)
    IN  IF TooFewGames(n_games)
        THEN Raise(InsufficientSample(n_games))
        ELSE Ok([early |-> RowsOfDates(indexed, EarlyDates(game_dates)),
                 mid |-> RowsOfDates(indexed, MidDates(game_dates)),
                 late |-> RowsOfDates(indexed, LateDates(game_dates))])

-----------------------------------------------------------------------------
(* Module B: the metric aggregator *)

\* the factor of a percentage
Percent == 100

\* df[c]: the cells of column c, row by row
Column(frame, c) == [i \in DOMAIN frame.rows |-> frame.rows[i][c]]

\* Series.dropna(): the values that are present
DropNa(s) ==
    LET Present(x) == ~IsNone(x)
        kept == SelectSeq(s, Present)
    IN  [i \in DOMAIN kept |-> Val(kept[i])]

\* how many entries of s are in the set S: s.isin(S).sum(), (s == x).sum()
CountIn(s, S) ==
    LET Hit(x) == x \in S
    IN  Len(SelectSeq(s, Hit))

\* round(valid.mean(), 2) if len(valid) > 0 else None
Mean2(valid) ==
    IF Len(valid) > 0 THEN Some(RoundDiv(SumSeq(valid), Len(valid))) ELSE None

\* round(valid.max(), 2) if len(valid) > 0 else None
Max2(valid) == IF Len(valid) > 0 THEN Some(MaxSeq(valid)) ELSE None

\* mutant of HardHitRate: 0 instead of None without a launch_speed
HardHitRate_ZeroDefault(valid_launch) ==
    IF Len(valid_launch) > 0
    THEN LET Hard(v) == v > HardHitSpeed * Scale
         IN  Some(RoundDiv(Len(SelectSeq(valid_launch, Hard)) * Percent * Scale,
                           Len(valid_launch)))
    ELSE Some(0)

\* 3. hard hit rate: the share of launch_speed > 95 among the non-null ones
HardHitRate(valid_launch) ==
    IF Len(valid_launch) > 0
    THEN LET Hard(v) == v > HardHitSpeed * Scale
             hard_hits == Len(SelectSeq(valid_launch, Hard))
         IN  Some(RoundDiv(hard_hits * Percent * Scale, Len(valid_launch)))
    ELSE None

SwingDescriptions ==
    {"swinging_strike", "swinging_strike_blocked", "foul", "foul_tip",
     "hit_into_play"}

MissDescriptions == {"swinging_strike", "swinging_strike_blocked"}

\* mutant of WhiffRate: every pitch with a description counted as a swing
WhiffRate_AllPitches(description) ==
    LET total_swings == Len(DropNa(description))
        swinging_strikes == CountIn(description, {Some(d) : d \in MissDescriptions})
    IN  IF total_swings > 0
        THEN Some(RoundDiv(swinging_strikes * Percent * Scale, total_swings))
        ELSE None

\* 4. whiff rate: the share of swinging strikes among the swings
WhiffRate(description) ==
    LET total_swings == CountIn(description, {Some(d) : d \in SwingDescriptions})
        swinging_strikes == CountIn(description, {Some(d) : d \in MissDescriptions})
    IN  IF total_swings > 0
        THEN Some(RoundDiv(swinging_strikes * Percent * Scale, total_swings))
        ELSE None

\* round(count / total_events * 100, 2) if total_events > 0 else None
EventRate(count, total_events) ==
    IF total_events > 0
    THEN Some(RoundDiv(count * Percent * Scale, total_events))
    ELSE None

HitEvents == {"single", "double", "triple", "home_run"}

AtBatEvents ==
    HitEvents \cup
    {"field_out", "strikeout", "double_play", "grounded_into_double_play",
     "force_out", "fielders_choice", "fielders_choice_out"}

\* mutant of BabipDenominator: 'single' left out of the at-bat events
BabipDenominator_NoSingle(events) ==
    CountIn(events, AtBatEvents \ {"single"}) - CountIn(events, {"strikeout"})
        - CountIn(events, {"home_run"}) + CountIn(events, {"sac_fly"})

\* mutant of BabipDenominator: 'strikeout' left out of the at-bat events
BabipDenominator_NoStrikeout(events) ==
    CountIn(events, AtBatEvents \ {"strikeout"}) - CountIn(events, {"strikeout"})
        - CountIn(events, {"home_run"}) + CountIn(events, {"sac_fly"})

\* babip_denominator = at_bats - strikeouts - home_runs + sac_flies
BabipDenominator(events) ==
    CountIn(events, AtBatEvents) - CountIn(events, {"strikeout"})
        - CountIn(events, {"home_run"}) + CountIn(events, {"sac_fly"})

\* 10. BABIP, rounded to 3 decimals, None unless the denominator is positive
Babip(events) ==
    LET babip_numerator == CountIn(events, HitEvents) - CountIn(events, {"home_run"})
        babip_denominator == BabipDenominator(events)
    IN  IF babip_denominator > 0
        THEN Some(RoundDiv(babip_numerator * Scale3, babip_denominator))
        ELSE None

\* woba_weights, in thousandths
woba_weights ==
    [walk |-> 690, hit_by_pitch |-> 722, single |-> 883, double |-> 1244,
     triple |-> 1569, home_run |-> 2015]

RECURSIVE WeightedSum(_, _)
WeightedSum(events, names) ==
    IF names = {} THEN 0
    ELSE LET e == CHOOSE x \in names : TRUE
         IN  CountIn(events, {e}) * woba_weights[e]
                + WeightedSum(events, names \ {e})

\* woba_denominator = at_bats + walks + hit_by_pitch + sac_flies
WobaDenominator(events) ==
    CountIn(events, AtBatEvents) + CountIn(events, {"walk"})
        + CountIn(events, {"hit_by_pitch"}) + CountIn(events, {"sac_fly"})

\* wOBA, rounded to 3 decimals, None unless the denominator is positive
Woba(events) ==
    LET woba_numerator == WeightedSum(events, DOMAIN woba_weights)
        woba_denominator == WobaDenominator(events)
    IN  IF woba_denominator > 0
        THEN Some(RoundDiv(woba_numerator, woba_denominator))
        ELSE None

\* mutant of PlateAppearances: every record counted, len(df)
PlateAppearances_AllRows(frame) == Len(frame.rows)

\* plate_appearances = len(df[df['events'].notna()])
PlateAppearances(frame) == Len(DropNa(Column(frame, "events")))

\* the columns aggregate_metrics reads, in the order it reads them
ColumnsRead ==
    <<"game_date", "events", "launch_speed", "launch_angle", "description",
      "hit_distance_sc", "release_spin_rate">>

\* df[c] of a column the frame does not have
KeyError(c) == [type |-> "KeyError", key |-> c]

\* the metrics of a frame that has every column read
Metrics(frame, segment_name) ==
    LET valid_launch == DropNa(Column(frame, "launch_speed"))
        events == DropNa(Column(frame, "events"))
        total_events == Len(events)
    IN  [segment |-> segment_name,
         games |-> Cardinality(Range(Column(frame, "game_date"))),
         plate_appearances |-> PlateAppearances(frame),
         avg_launch_speed |-> Mean2(valid_launch),
         avg_launch_angle |-> Mean2(DropNa(Column(frame, "launch_angle"))),
         hard_hit_rate |-> HardHitRate(valid_launch),
         whiff_rate |-> WhiffRate(Column(frame, "description")),
         max_hit_distance |-> Max2(DropNa(Column(frame, "hit_distance_sc"))),
         avg_pitcher_spin |-> Mean2(DropNa(Column(frame, "release_spin_rate"))),
         home_runs |-> CountIn(events, {"home_run"}),
         walks |-> CountIn(events, {"walk"}),
         bb_rate |-> EventRate(CountIn(events, {"walk"}), total_events),
         strikeouts |-> CountIn(events, {"strikeout"}),
         k_rate |-> EventRate(CountIn(events, {"strikeout"}), total_events),
         babip |-> Babip(events),
         woba |-> Woba(events)]

\* aggregate_metrics(segment_df, segment_name): the metrics, or the KeyError
\* of the first column read that the frame does not have
aggregate_metrics(frame, segment_name) ==
    LET missing == {i \in DOMAIN ColumnsRead : ColumnsRead[i] \notin frame.columns}
    IN  IF missing # {}
        THEN Raise(KeyError(ColumnsRead[CHOOSE i \in missing :
                                          \A j \in missing : i <= j]))
        ELSE Ok(Metrics(frame, segment_name))

-----------------------------------------------------------------------------
(* The trend classifier and the diagnosis assembler *)

\* mutant of _calculate_trend: abs(diff) <= 1
_calculate_trend_Inclusive(e_val, m_val, l_val) ==
    IF IsNone(e_val) \/ IsNone(l_val)
    THEN "insufficient_data"
    ELSE LET diff == Val(l_val) - Val(e_val)
         IN  IF Abs(diff) <= TrendThreshold * Scale THEN "stable"
             ELSE IF diff > 0 THEN "increasing"
             ELSE "decreasing"

\* mutant of _calculate_trend: diff = early_val - late_val
_calculate_trend_Reversed(e_val, m_val, l_val) ==
    IF IsNone(e_val) \/ IsNone(l_val)
    THEN "insufficient_data"
    ELSE LET diff == Val(e_val) - Val(l_val)
         IN  IF Abs(diff) < TrendThreshold * Scale THEN "stable"
             ELSE IF diff > 0 THEN "increasing"
             ELSE "decreasing"

\* _calculate_trend(early_val, mid_val, late_val)
_calculate_trend(e_val, m_val, l_val) ==
    IF IsNone(e_val) \/ IsNone(l_val)
    THEN "insufficient_data"
    ELSE LET diff == Val(l_val) - Val(e_val)
         IN  IF Abs(diff) < TrendThreshold * Scale THEN "stable"
             ELSE IF diff > 0 THEN "increasing"
             ELSE "decreasing"

\* player_name = f"{first_name} {last_name}"
FullName(first, last) == <<first, " ", last>>

\* mutant of build_diagnosis_json: the Mid games left out of the total
build_diagnosis_json_NoMidGames(player_name, e_metrics, m_metrics, l_metrics) ==
    [player_name |-> player_name,
     analysis_segments |->
        [early |-> e_metrics, mid |-> m_metrics, late |-> l_metrics],
     summary |->
        [total_games_analyzed |-> e_metrics["games"] + l_metrics["games"],
         launch_speed_trend |->
            _calculate_trend(e_metrics["avg_launch_speed"],
                             m_metrics["avg_launch_speed"],
                             l_metrics["avg_launch_speed"]),
         hard_hit_trend |->
            _calculate_trend(e_metrics["hard_hit_rate"],
                             m_metrics["hard_hit_rate"],
                             l_metrics["hard_hit_rate"]),
         k_rate_trend |->
            _calculate_trend(e_metrics["k_rate"],
                             m_metrics["k_rate"],
                             l_metrics["k_rate"])]]

\* mutant of build_diagnosis_json: the k_rate trend taken from Mid to Late
build_diagnosis_json_MidKRate(player_name, e_metrics, m_metrics, l_metrics) ==
    [player_name |-> player_name,
     analysis_segments |->
        [early |-> e_metrics, mid |-> m_metrics, late |-> l_metrics],
     summary |->
        [total_games_analyzed |->
            e_metrics["games"] + m_metrics["games"] + l_metrics["games"],
         launch_speed_trend |->
            _calculate_trend(e_metrics["avg_launch_speed"],
                             m_metrics["avg_launch_speed"],
                             l_metrics["avg_launch_speed"]),
         hard_hit_trend |->
            _calculate_trend(e_metrics["hard_hit_rate"],
                             m_metrics["hard_hit_rate"],
                             l_metrics["hard_hit_rate"]),
         k_rate_trend |->
            _calculate_trend(m_metrics["k_rate"],
                             e_metrics["k_rate"],
                             l_metrics["k_rate"])]]

\* build_diagnosis_json(player_name, early_metrics, mid_metrics, late_metrics)
build_diagnosis_json(player_name, e_metrics, m_metrics, l_metrics) ==
    [player_name |-> player_name,
     analysis_segments |->
        [early |-> e_metrics, mid |-> m_metrics, late |-> l_metrics],
     summary |->
        [total_games_analyzed |->
            e_metrics["games"] + m_metrics["games"] + l_metrics["games"],
         launch_speed_trend |->
            _calculate_trend(e_metrics["avg_launch_speed"],
                             m_metrics["avg_launch_speed"],
                             l_metrics["avg_launch_speed"]),
         hard_hit_trend |->
            _calculate_trend(e_metrics["hard_hit_rate"],
                             m_metrics["hard_hit_rate"],
                             l_metrics["hard_hit_rate"]),
         k_rate_trend |->
            _calculate_trend(e_metrics["k_rate"], m_metrics["k_rate"],
                             l_metrics["k_rate"])]]

-----------------------------------------------------------------------------
(* The collaborators of get_full_analysis *)

\* get_player_id(last_name, first_name), given what playerid_lookup returns
get_player_id(found, last, first) ==
    IF found = <<>>
    THEN Raise([type |-> "ValueError", msg |-> "player not found",
                player |-> FullName(first, last)])
    ELSE Ok(found[1])

\* mutant of fetch_statcast_data: the game_type filter left out
fetch_statcast_data_Unfiltered(frame, start_date, end_date) ==
    IF frame.rows = <<>>
    THEN Raise([type |-> "ValueError", msg |-> "no data",
                start_date |-> start_date, end_date |-> end_date])
    ELSE Ok(frame)

\* fetch_statcast_data(player_id, start_date, end_date), given what
\* statcast_batter returns: the regular-season records
fetch_statcast_data(frame, start_date, end_date) ==
    IF frame.rows = <<>>
    THEN Raise([type |-> "ValueError", msg |-> "no data",
                start_date |-> start_date, end_date |-> end_date])
    ELSE IF "game_type" \in frame.columns
         THEN LET Regular(r) == r["game_type"] = "R"
                  kept == [columns |-> frame.columns,
                           rows |-> SelectSeq(frame.rows, Regular)]
              IN  IF kept.rows = <<>>
                  THEN Raise([type |-> "ValueError",
                              msg |-> "no regular season data",
                              start_date |-> start_date, end_date |-> end_date])
                  ELSE Ok(kept)
         ELSE Ok(frame)

-----------------------------------------------------------------------------
(* The event streams the model draws its inputs from *)

OptionalColumns ==
    {"events", "description", "launch_speed", "launch_angle",
     "hit_distance_sc", "release_spin_rate"}

StatcastColumns == {"game_date", "game_type"} \cup OptionalColumns

Play(ev, desc, ls, la, hd, spin) ==
    [events |-> ev, description |-> desc, launch_speed |-> ls,
     launch_angle |-> la, hit_distance_sc |-> hd, release_spin_rate |-> spin]

\* a ball put in play: a terminal event with its measurements (mph, degrees,
\* feet, rpm)
Batted(ev, mph, angle, feet) ==
    Play(Some(ev), Some("hit_into_play"), Some(mph * Scale),
         Some(angle * Scale), Some(feet * Scale), Some(2200 * Scale))

\* a pitch that ends no plate appearance
Pitch(desc) == Play(None, Some(desc), None, None, None, Some(2300 * Scale))

\* a plate appearance that ends without a batted ball
Terminal(ev, desc) ==
    Play(Some(ev), Some(desc), None, None, None, Some(2400 * Scale))

\* a record with every optional field null
Blank == Play(None, None, None, None, None, None)

HitCycle == <<"single", "field_out", "double", "home_run", "force_out">>

\* the launch_speed (hundredths of mph) of game i of a 40-game season in
\* which it rises linearly from 85 to 95
LinearSpeed(i) == 85 * Scale + RoundDiv(10 * Scale * (i - 1), 39)

Profiles == {"rising", "fading", "sparse", "linear"}

\* the record of game i (1-based, in date order) at slot 1 or 2
GamePlay(i, slot, profile) ==
    CASE profile = "rising" ->
            IF slot = 1
            THEN Batted(HitCycle[1 + (i % 5)], 85 + (i \div 3), 10 + (i % 7),
                        200 + 5 * i)
            ELSE IF i % 3 = 0 THEN Terminal("strikeout", "swinging_strike")
                 ELSE IF i % 3 = 1 THEN Pitch("foul")
                 ELSE Terminal("walk", "ball")
      [] profile = "fading" ->
            IF slot = 1
            THEN Batted(HitCycle[1 + (i % 5)], 104 - (i \div 3), 25 - (i % 9),
                        420 - 4 * i)
            ELSE IF i > 20 THEN Terminal("strikeout", "swinging_strike_blocked")
                 ELSE IF i % 2 = 0 THEN Terminal("sac_fly", "hit_into_play")
                 ELSE Terminal("hit_by_pitch", "hit_by_pitch")
      [] profile = "linear" ->
            Play(Some(IF slot = 1 THEN "field_out" ELSE "single"),
                 Some("hit_into_play"), Some(LinearSpeed(i)), Some(12 * Scale),
                 Some(250 * Scale), Some(2200 * Scale))
      [] OTHER ->
            IF i <= 12
            THEN (IF slot = 1 THEN Blank ELSE Pitch("called_strike"))
            ELSE (IF slot = 1 THEN Batted("field_out", 90, 0 - 5, 150)
                  ELSE Pitch("foul_tip"))

\* the calendar date <<year, month, day>> of game i: later games have later
\* dates, and the dates have gaps
GameDate(i) ==
    LET k == 3 * i + (i % 3)
    IN  <<2024, 3 + (k \div 28), 1 + (k % 28)>>

\* the game_type of game i of n: 'R' regular season, 'S' spring training,
\* 'F' 'D' 'L' 'W' postseason
GameType(i, n, kinds) ==
    CASE kinds = "regular" -> "R"
      [] kinds = "spring" -> "S"
      [] OTHER -> IF i <= 2 THEN "S" ELSE IF i > n - 3 THEN "W" ELSE "R"

Orders == {"asc", "desc", "split"}

\* the game and slot of the j-th record of a stream of n games: by date,
\* most recent first as the provider sends them, or the first records of all
\* games followed by their second records
Place(j, n, order) ==
    CASE order = "asc" -> [game |-> (j + 1) \div 2, slot |-> 2 - (j % 2)]
      [] order = "desc" -> [game |-> n + 1 - ((j + 1) \div 2), slot |-> 2 - (j % 2)]
      [] OTHER -> IF j <= n THEN [game |-> n + 1 - j, slot |-> 1]
                  ELSE [game |-> j - n, slot |-> 2]

\* a stream of n games, two records a game, with the columns cols
Stream(n, profile, order, kinds, cols) ==
    [columns |-> cols,
     rows |-> [j \in 1..(2 * n) |->
        LET at == Place(j, n, order)
            play == GamePlay(at.game, at.slot, profile)
        IN  [c \in cols |->
               IF c = "game_date" THEN GameDate(at.game)
               ELSE IF c = "game_type" THEN GameType(at.game, n, kinds)
               ELSE play[c]]]]

-----------------------------------------------------------------------------
(* Direct calls of slice_by_game_index *)

\* no call of narrative_logic.py, data_fetcher.py or narrative_engine.py
NarrativeIdle ==
    /\ api_key = None /\ season_year = "" /\ env_api_key = None
    /\ genai_key = None /\ requests = <<>> /\ narrative = None
    /\ quick_summary = None

FetcherIdle == team_code = "" /\ team_game_df = None

MomentsIdle == top_n = 0 /\ moments = <<>> /\ metadata = None

\* no run of the season-diagnosis page
UiIdle == session_state = None /\ display = None

Idle ==
    /\ NarrativeIdle /\ FetcherIdle /\ MomentsIdle /\ UiIdle
    /\ trace = <<>> /\ lookup = <<>> /\ provider = None
    /\ first_name = "" /\ last_name = "" /\ player_id = None
    /\ early_df = None /\ mid_df = None /\ late_df = None
    /\ early_metrics = None /\ mid_metrics = None /\ late_metrics = None
    /\ diagnosis = None /\ error = None
    /\ segment_df = None /\ metrics = None
    /\ early_val = None /\ mid_val = None /\ late_val = None /\ trend = ""

InitSlice ==
    /\ pc = "slice"
    /\ \E n \in 0..MaxGames, profile \in Profiles, order \in Orders :
          df = Stream(n, profile, order, "regular", StatcastColumns)
    /\ Idle

\* mutant of Slice: the slicer's error is caught and the analysis goes on
\* with empty windows
Slice_Swallow ==
    /\ UNCHANGED <<narrative_vars, fetcher_vars, moment_vars, ui_vars>>
    /\ pc = "slice"
    /\ LET r == slice_by_game_index(df)
           empty == [columns |-> df.columns, rows |-> <<>>]
       IN  IF r.ok
           THEN /\ early_df' = r.val.early
                /\ mid_df' = r.val.mid
                /\ late_df' = r.val.late
           ELSE /\ early_df' = empty
                /\ mid_df' = empty
                /\ late_df' = empty
    /\ pc' = "aggregate_early"
    /\ trace' = Append(trace, "slice")
    /\ UNCHANGED <<lookup, provider, first_name, last_name, player_id, df,
                   early_metrics, mid_metrics, late_metrics, diagnosis, error,
                   segment_df, metrics, early_val, mid_val, late_val, trend>>

\* mutant of Slice: the game_index column is assigned on the caller's frame
Slice_InPlace ==
    /\ UNCHANGED <<narrative_vars, fetcher_vars, moment_vars, ui_vars>>
    /\ pc = "slice"
    /\ LET r == slice_by_game_index(df)
           copy == ConvertDates(df)
           indexed == WithGameIndex(copy, GameDates(copy))
       IN  IF r.ok
           THEN /\ early_df' = r.val.early
                /\ mid_df' = r.val.mid
                /\ late_df' = r.val.late
                /\ df' = [columns |-> indexed.columns,
                          rows |-> [i \in DOMAIN df.rows |->
                             [c \in indexed.columns |->
                                IF c = "game_index" THEN indexed.rows[i][c]
                                ELSE df.rows[i][c]]]]
                /\ pc' = "aggregate_early"
                /\ UNCHANGED error
           ELSE /\ error' = r.err
                /\ pc' = "raised"
                /\ UNCHANGED <<df, early_df, mid_df, late_df>>
    /\ trace' = Append(trace, "slice")
    /\ UNCHANGED <<lookup, provider, first_name, last_name, player_id,
                   early_metrics, mid_metrics, late_metrics, diagnosis,
                   segment_df, metrics, early_val, mid_val, late_val, trend>>

\* Step 3: early_df, mid_df, late_df = slice_by_game_index(df)
Slice ==
    /\ UNCHANGED <<narrative_vars, fetcher_vars, moment_vars, ui_vars>>
    /\ pc = "slice"
    /\ LET r == slice_by_game_index(df)
       IN  IF r.ok
           THEN /\ early_df' = r.val.early
                /\ mid_df' = r.val.mid
                /\ late_df' = r.val.late
                /\ pc' = "aggregate_early"
                /\ UNCHANGED error
           ELSE /\ error' = r.err
                /\ pc' = "raised"
                /\ UNCHANGED <<early_df, mid_df, late_df>>
    /\ trace' = Append(trace, "slice")
    /\ UNCHANGED <<lookup, provider, first_name, last_name, player_id, df,
                   early_metrics, mid_metrics, late_metrics, diagnosis,
                   segment_df, metrics, early_val, mid_val, late_val, trend>>

SpecSlice == InitSlice /\ [][Slice]_vars

-----------------------------------------------------------------------------
(* Direct calls of aggregate_metrics *)

\* the records a window handed to aggregate_metrics is made of
WindowPlays ==
    <<Batted("single", 98, 12, 210),
      Terminal("strikeout", "swinging_strike"),
      Blank,
      Batted("home_run", 105, 28, 420),
      Terminal("walk", "ball"),
      Pitch("foul"),
      Terminal("sac_fly", "hit_into_play"),
      Batted("field_out", 88, 0 - 3, 120),
      Terminal("hit_by_pitch", "hit_by_pitch")>>

\* a window: the records picks[1], picks[2], ... of WindowPlays, on
\* alternating dates, with the columns cols
Window(picks, cols) ==
    [columns |-> cols,
     rows |-> [j \in DOMAIN picks |->
        [c \in cols |->
           IF c = "game_date" THEN to_datetime(GameDate(picks[j] % 2))
           ELSE IF c = "game_type" THEN "R"
           ELSE WindowPlays[picks[j]][c]]]]

\* the columns of upstream data: all of them, or all but one optional field
ColumnSets == {StatcastColumns} \cup {StatcastColumns \ {c} : c \in OptionalColumns}

InitAgg ==
    /\ NarrativeIdle /\ FetcherIdle /\ MomentsIdle /\ UiIdle
    /\ pc = "aggregate"
    /\ \E len \in 0..MaxRows :
         \E picks \in [1..len -> DOMAIN WindowPlays], cols \in ColumnSets :
            segment_df = Window(picks, cols)
    /\ metrics = None
    /\ trace = <<>> /\ lookup = <<>> /\ provider = None
    /\ first_name = "" /\ last_name = "" /\ player_id = None
    /\ df = None /\ early_df = None /\ mid_df = None /\ late_df = None
    /\ early_metrics = None /\ mid_metrics = None /\ late_metrics = None
    /\ diagnosis = None /\ error = None
    /\ early_val = None /\ mid_val = None /\ late_val = None /\ trend = ""

\* metrics = aggregate_metrics(segment_df, "Window")
Aggregate ==
    /\ UNCHANGED <<narrative_vars, fetcher_vars, moment_vars, ui_vars>>
    /\ pc = "aggregate"
    /\ metrics' = aggregate_metrics(segment_df, "Window")
    /\ pc' = "aggregated"
    /\ UNCHANGED <<trace, lookup, provider, first_name, last_name, player_id,
                   df, early_df, mid_df, late_df, early_metrics, mid_metrics,
                   late_metrics, diagnosis, error, segment_df, early_val,
                   mid_val, late_val, trend>>

SpecAgg == InitAgg /\ [][Aggregate]_vars

-----------------------------------------------------------------------------
(* Direct calls of _calculate_trend *)

\* the values a metric takes, in hundredths
TrendValues ==
    {None} \cup {Some(v) : v \in {0 - 100, 0, 99, 100, 8800, 8900, 8950, 9000,
                                   9030, 9200, 9500}}

InitTrend ==
    /\ NarrativeIdle /\ FetcherIdle /\ MomentsIdle /\ UiIdle
    /\ pc = "classify"
    /\ early_val \in TrendValues
    /\ mid_val \in TrendValues
    /\ late_val \in TrendValues
    /\ trend = ""
    /\ trace = <<>> /\ lookup = <<>> /\ provider = None
    /\ first_name = "" /\ last_name = "" /\ player_id = None
    /\ df = None /\ early_df = None /\ mid_df = None /\ late_df = None
    /\ early_metrics = None /\ mid_metrics = None /\ late_metrics = None
    /\ diagnosis = None /\ error = None
    /\ segment_df = None /\ metrics = None

\* trend = _calculate_trend(early_val, mid_val, late_val)
Classify ==
    /\ UNCHANGED <<narrative_vars, fetcher_vars, moment_vars, ui_vars>>
    /\ pc = "classify"
    /\ trend' = _calculate_trend(early_val, mid_val, late_val)
    /\ pc' = "classified"
    /\ UNCHANGED <<trace, lookup, provider, first_name, last_name, player_id,
                   df, early_df, mid_df, late_df, early_metrics, mid_metrics,
                   late_metrics, diagnosis, error, segment_df, metrics,
                   early_val, mid_val, late_val>>

SpecTrend == InitTrend /\ [][Classify]_vars

-----------------------------------------------------------------------------
(* get_full_analysis *)

\* the upstream data: the kinds of games sent and the columns they carry
Upstreams ==
    {<<"regular", StatcastColumns>>,
     <<"mixed", StatcastColumns>>,
     <<"spring", StatcastColumns>>,
     <<"mixed", StatcastColumns \ {"game_type"}>>,
     <<"regular", StatcastColumns \ {"launch_speed"}>>}

Init ==
    /\ NarrativeIdle /\ FetcherIdle /\ MomentsIdle /\ UiIdle
    /\ pc = "lookup"
    /\ lookup \in {<<>>, <<660271, 592450>>}
    /\ first_name = "Shohei" /\ last_name = "Ohtani"
    /\ \E n \in 0..MaxGames, profile \in Profiles, order \in {"desc", "split"},
          up \in Upstreams :
          provider = Stream(n, profile, order, up[1], up[2])
    /\ trace = <<>> /\ player_id = None /\ df = None
    /\ early_df = None /\ mid_df = None /\ late_df = None
    /\ early_metrics = None /\ mid_metrics = None /\ late_metrics = None
    /\ diagnosis = None /\ error = None
    /\ segment_df = None /\ metrics = None
    /\ early_val = None /\ mid_val = None /\ late_val = None /\ trend = ""

\* Step 1: player_id = get_player_id(last_name, first_name)
GetPlayerId ==
    /\ UNCHANGED <<narrative_vars, fetcher_vars, moment_vars, ui_vars>>
    /\ pc = "lookup"
    /\ LET r == get_player_id(lookup, last_name, first_name)
       IN  IF r.ok
           THEN player_id' = r.val /\ pc' = "fetch" /\ UNCHANGED error
           ELSE error' = r.err /\ pc' = "raised" /\ UNCHANGED player_id
    /\ trace' = Append(trace, "lookup")
    /\ UNCHANGED <<lookup, provider, first_name, last_name, df, early_df,
                   mid_df, late_df, early_metrics, mid_metrics, late_metrics,
                   diagnosis, segment_df, metrics, early_val, mid_val,
                   late_val, trend>>

\* Step 2: df = fetch_statcast_data(player_id, start_date, end_date)
Fetch ==
    /\ UNCHANGED <<narrative_vars, fetcher_vars, moment_vars, ui_vars>>
    /\ pc = "fetch"
    /\ LET r == fetch_statcast_data(provider, "2024-03-20", "2024-10-31")
       IN  IF r.ok
           THEN df' = r.val /\ pc' = "slice" /\ UNCHANGED error
           ELSE error' = r.err /\ pc' = "raised" /\ UNCHANGED df
    /\ trace' = Append(trace, "fetch")
    /\ UNCHANGED <<lookup, provider, first_name, last_name, player_id,
                   early_df, mid_df, late_df, early_metrics, mid_metrics,
                   late_metrics, diagnosis, segment_df, metrics, early_val,
                   mid_val, late_val, trend>>

\* Step 4: early_metrics = aggregate_metrics(early_df, "Early (前10場)")
AggregateEarly ==
    /\ UNCHANGED <<narrative_vars, fetcher_vars, moment_vars, ui_vars>>
    /\ pc = "aggregate_early"
    /\ LET r == aggregate_metrics(early_df, "Early")
       IN  IF r.ok
           THEN early_metrics' = r.val /\ pc' = "aggregate_mid" /\ UNCHANGED error
           ELSE error' = r.err /\ pc' = "raised" /\ UNCHANGED early_metrics
    /\ trace' = Append(trace, "aggregate_early")
    /\ UNCHANGED <<lookup, provider, first_name, last_name, player_id, df,
                   early_df, mid_df, late_df, mid_metrics, late_metrics,
                   diagnosis, segment_df, metrics, early_val, mid_val,
                   late_val, trend>>

\* mid_metrics = aggregate_metrics(mid_df, "Mid (季中10場)")
AggregateMid ==
    /\ UNCHANGED <<narrative_vars, fetcher_vars, moment_vars, ui_vars>>
    /\ pc = "aggregate_mid"
    /\ LET r == aggregate_metrics(mid_df, "Mid")
       IN  IF r.ok
           THEN mid_metrics' = r.val /\ pc' = "aggregate_late" /\ UNCHANGED error
           ELSE error' = r.err /\ pc' = "raised" /\ UNCHANGED mid_metrics
    /\ trace' = Append(trace, "aggregate_mid")
    /\ UNCHANGED <<lookup, provider, first_name, last_name, player_id, df,
                   early_df, mid_df, late_df, early_metrics, late_metrics,
                   diagnosis, segment_df, metrics, early_val, mid_val,
                   late_val, trend>>

\* late_metrics = aggregate_metrics(late_df, "Late (最後10場)")
AggregateLate ==
    /\ UNCHANGED <<narrative_vars, fetcher_vars, moment_vars, ui_vars>>
    /\ pc = "aggregate_late"
    /\ LET r == aggregate_metrics(late_df, "Late")
       IN  IF r.ok
           THEN late_metrics' = r.val /\ pc' = "assemble" /\ UNCHANGED error
           ELSE error' = r.err /\ pc' = "raised" /\ UNCHANGED late_metrics
    /\ trace' = Append(trace, "aggregate_late")
    /\ UNCHANGED <<lookup, provider, first_name, last_name, player_id, df,
                   early_df, mid_df, late_df, early_metrics, mid_metrics,
                   diagnosis, segment_df, metrics, early_val, mid_val,
                   late_val, trend>>

\* Step 5: diagnosis = build_diagnosis_json(...); return diagnosis
BuildDiagnosis ==
    /\ UNCHANGED <<narrative_vars, fetcher_vars, moment_vars, ui_vars>>
    /\ pc = "assemble"
    /\ diagnosis' = build_diagnosis_json(FullName(first_name, last_name),
                                         early_metrics, mid_metrics, late_metrics)
    /\ pc' = "done"
    /\ trace' = Append(trace, "assemble")
    /\ UNCHANGED <<lookup, provider, first_name, last_name, player_id, df,
                   early_df, mid_df, late_df, early_metrics, mid_metrics,
                   late_metrics, error, segment_df, metrics, early_val,
                   mid_val, late_val, trend>>

Next ==
    \/ GetPlayerId
    \/ Fetch
    \/ Slice
    \/ AggregateEarly
    \/ AggregateMid
    \/ AggregateLate
    \/ BuildDiagnosis

Spec == Init /\ [][Next]_vars

-----------------------------------------------------------------------------
(* narrative_logic.py: generate_season_narrative *)

\* the template value of .env that stands for "no key yet"
PlaceholderKey == "your_gemini_api_key_here"

\* not api_key: None and the empty string are falsy
NoKey(key) == IsNone(key) \/ key = Some("")

\* mutant of ResolveKey: the environment's key preferred to the caller's
ResolveKey_EnvFirst(key, env_key) == IF NoKey(env_key) THEN key ELSE env_key

\* if not api_key: api_key = os.getenv('OPENAI_API_KEY')
ResolveKey(key, env_key) == IF NoKey(key) THEN env_key ELSE key

\* configure_gemini(api_key): the key genai is configured with and the model
\* built, or the ValueError
configure_gemini(key, env_key) ==
    LET resolved == ResolveKey(key, env_key)
    IN  IF NoKey(resolved) \/ resolved = Some(PlaceholderKey)
        THEN Raise([type |-> "ValueError", msg |-> "api key required"])
        ELSE Ok([api_key |-> resolved, model |-> "gemini-2.5-flash"])

\* _translate_trend(trend): the label in Chinese (glossed here: 上升, 下降,
\* 穩定, 數據不足), the label itself when it is unknown
_translate_trend(label) ==
    LET translations ==
            [increasing |-> "rising", decreasing |-> "falling",
             stable |-> "steady", insufficient_data |-> "not enough data"]
    IN  IF label \in DOMAIN translations THEN translations[label] ELSE label

\* json.dumps(value, indent=2, ensure_ascii=False): the text of value
json_dumps(value) == <<"json", value>>

\* ANALYSIS_PROMPT_TEMPLATE.format(...): the fields put in the template
AnalysisPrompt(diagnosis_json, year) ==
    LET analysis_segments == diagnosis_json["analysis_segments"]
        summary == diagnosis_json["summary"]
    IN  [season_year |-> year,
         player_name |-> diagnosis_json["player_name"],
         early_data |-> json_dumps(analysis_segments["early"]),
         mid_data |-> json_dumps(analysis_segments["mid"]),
         late_data |-> json_dumps(analysis_segments["late"]),
         launch_speed_trend |-> _translate_trend(summary["launch_speed_trend"]),
         hard_hit_trend |-> _translate_trend(summary["hard_hit_trend"]),
         k_rate_trend |-> _translate_trend(summary["k_rate_trend"])]

\* what model.generate_content does: it answers with a text or raises
Answers ==
    {Ok("scouting report"),
     Raise([type |-> "ResourceExhausted", msg |-> "quota exceeded"])}

\* the keys a caller passes and the environment holds
CallerKeys == {None, Some(""), Some(PlaceholderKey), Some("AIza-sidebar")}
EnvKeys == {None, Some(""), Some(PlaceholderKey), Some("AIza-dotenv")}

\* the windows the diagnoses handed to the narrative are aggregated from
SamplePicks == {<<1, 2>>, <<4, 5>>, <<3>>, <<8, 2, 6>>}

\* the diagnoses handed to generate_season_narrative
Diagnoses ==
    {build_diagnosis_json(FullName("Shohei", "Ohtani"),
                          Metrics(Window(<<1, 2>>, StatcastColumns), "Early"),
                          Metrics(Window(<<6, 8>>, StatcastColumns), "Mid"),
                          Metrics(Window(picks, StatcastColumns), "Late")) :
        picks \in SamplePicks}

InitNarrative ==
    /\ pc = "configure"
    /\ diagnosis \in Diagnoses
    /\ season_year \in {"2023", "2024"}
    /\ api_key \in CallerKeys
    /\ env_api_key \in EnvKeys
    /\ genai_key = None /\ requests = <<>> /\ narrative = None
    /\ quick_summary = None
    /\ FetcherIdle /\ MomentsIdle /\ UiIdle
    /\ trace = <<>> /\ lookup = <<>> /\ provider = None
    /\ first_name = "" /\ last_name = "" /\ player_id = None
    /\ df = None /\ early_df = None /\ mid_df = None /\ late_df = None
    /\ early_metrics = None /\ mid_metrics = None /\ late_metrics = None
    /\ error = None /\ segment_df = None /\ metrics = None
    /\ early_val = None /\ mid_val = None /\ late_val = None /\ trend = ""

\* model = configure_gemini(api_key): genai.configure(api_key=...), or the
\* ValueError, which generate_season_narrative lets through
ConfigureGemini ==
    /\ pc = "configure"
    /\ LET r == configure_gemini(api_key, env_api_key)
       IN  IF r.ok
           THEN genai_key' = r.val.api_key /\ pc' = "generate" /\ UNCHANGED error
           ELSE error' = r.err /\ pc' = "raised" /\ UNCHANGED genai_key
    /\ UNCHANGED <<api_key, season_year, env_api_key, requests, narrative,
                   quick_summary>>
    /\ UNCHANGED <<fetcher_vars, moment_vars, ui_vars>>
    /\ UNCHANGED <<trace, lookup, provider, first_name, last_name, player_id,
                   df, early_df, mid_df, late_df, early_metrics, mid_metrics,
                   late_metrics, diagnosis, segment_df, metrics, early_val,
                   mid_val, late_val, trend>>

\* the prompt is built and sent; the report text is returned, or the error
\* message when generate_content raises
GenerateContent ==
    /\ pc = "generate"
    /\ \E answer \in Answers :
          /\ requests' = Append(requests,
                [api_key |-> genai_key, model |-> "gemini-2.5-flash",
                 system |-> "SCOUT_SYSTEM_PROMPT",
                 prompt |-> AnalysisPrompt(diagnosis, season_year)])
          /\ narrative' = IF answer.ok THEN Some(<<answer.val>>)
                          ELSE Some(<<"AI report error: ", answer.err.msg>>)
    /\ pc' = "returned"
    /\ UNCHANGED <<api_key, season_year, env_api_key, genai_key, quick_summary>>
    /\ UNCHANGED <<fetcher_vars, moment_vars, ui_vars>>
    /\ UNCHANGED <<trace, lookup, provider, first_name, last_name, player_id,
                   df, early_df, mid_df, late_df, early_metrics, mid_metrics,
                   late_metrics, diagnosis, error, segment_df, metrics,
                   early_val, mid_val, late_val, trend>>

NextNarrative == ConfigureGemini \/ GenerateContent

SpecNarrative == InitNarrative /\ [][NextNarrative]_vars

-----------------------------------------------------------------------------
(* narrative_logic.py: generate_quick_summary *)

\* the truth value of early.get(m): None and 0 are falsy
Truthy(value) == ~IsNone(value) /\ Val(value) # 0

\* f"{diff:.1f}": hundredths shown with one decimal, as tenths
OneDecimal(hundredths) == RoundDiv(hundredths, 10)

\* speed_change: empty unless both values are truthy; a rise when
\* diff > 1, a drop when diff < -1, stable otherwise
SpeedChange(early, late) ==
    IF Truthy(early["avg_launch_speed"]) /\ Truthy(late["avg_launch_speed"])
    THEN LET diff == Val(late["avg_launch_speed"]) - Val(early["avg_launch_speed"])
         IN  IF diff > 1 * Scale
             THEN [kind |-> "rise", mph |-> OneDecimal(diff)]
             ELSE IF diff < 0 - 1 * Scale
                  THEN [kind |-> "drop", mph |-> OneDecimal(Abs(diff))]
                  ELSE [kind |-> "stable"]
    ELSE [kind |-> ""]

\* fatigue_indicator: empty unless both hard_hit_rate are truthy and differ
\* by more than 5 points
FatigueIndicator(early, late) ==
    IF Truthy(early["hard_hit_rate"]) /\ Truthy(late["hard_hit_rate"])
    THEN LET hh_diff == Val(late["hard_hit_rate"]) - Val(early["hard_hit_rate"])
         IN  IF hh_diff < 0 - 5 * Scale THEN "late-season fatigue"
             ELSE IF hh_diff > 5 * Scale THEN "late-season improvement"
             ELSE ""
    ELSE ""

\* d.get(key, default)
GetOr(d, key, default) == IF key \in DOMAIN d THEN d[key] ELSE default

\* generate_quick_summary(diagnosis_json): the fields of the text returned
generate_quick_summary(diagnosis_json) ==
    LET segments == diagnosis_json["analysis_segments"]
        summary == diagnosis_json["summary"]
        early == segments["early"]
        late == segments["late"]
        fatigue_indicator == FatigueIndicator(early, late)
        Row(m) == <<GetOr(early, m, "N/A"), GetOr(late, m, "N/A")>>
    IN  [player_name |-> diagnosis_json["player_name"],
         total_games_analyzed |-> summary["total_games_analyzed"],
         launch_speed_trend |-> _translate_trend(summary["launch_speed_trend"]),
         hard_hit_trend |-> _translate_trend(summary["hard_hit_trend"]),
         k_rate_trend |-> _translate_trend(summary["k_rate_trend"]),
         speed_change |-> SpeedChange(early, late),
         fatigue_indicator |-> IF fatigue_indicator # "" THEN fatigue_indicator
                               ELSE "steady",
         avg_launch_speed |-> Row("avg_launch_speed"),
         hard_hit_rate |-> Row("hard_hit_rate"),
         woba |-> Row("woba"),
         home_runs |-> Row("home_runs")]

\* the launch_speed (hundredths of mph) of the one record of a window, None
\* for a walk
SummarySpeeds ==
    {None} \cup {Some(v) : v \in {8600, 8750, 8800, 8850, 8900, 8950, 9600}}

\* a window of one record with that launch_speed
SpeedWindow(speed) ==
    LET play == IF IsNone(speed) THEN Terminal("walk", "ball")
                ELSE Play(Some("single"), Some("hit_into_play"), speed,
                          Some(12 * Scale), Some(210 * Scale), Some(2200 * Scale))
    IN  [columns |-> StatcastColumns,
         rows |-> <<[c \in StatcastColumns |->
                      IF c = "game_date" THEN to_datetime(GameDate(1))
                      ELSE IF c = "game_type" THEN "R"
                      ELSE play[c]]>>]

InitSummary ==
    /\ pc = "summarise"
    /\ \E e_speed \in SummarySpeeds, l_speed \in SummarySpeeds :
          diagnosis = build_diagnosis_json(FullName("Shohei", "Ohtani"),
                          Metrics(SpeedWindow(e_speed), "Early"),
                          Metrics(SpeedWindow(Some(8800)), "Mid"),
                          Metrics(SpeedWindow(l_speed), "Late"))
    /\ api_key = None /\ season_year = "" /\ env_api_key = None
    /\ genai_key = None /\ requests = <<>> /\ narrative = None
    /\ quick_summary = None
    /\ FetcherIdle /\ MomentsIdle /\ UiIdle
    /\ trace = <<>> /\ lookup = <<>> /\ provider = None
    /\ first_name = "" /\ last_name = "" /\ player_id = None
    /\ df = None /\ early_df = None /\ mid_df = None /\ late_df = None
    /\ early_metrics = None /\ mid_metrics = None /\ late_metrics = None
    /\ error = None /\ segment_df = None /\ metrics = None
    /\ early_val = None /\ mid_val = None /\ late_val = None /\ trend = ""

\* quick_summary = generate_quick_summary(diagnosis)
QuickSummary ==
    /\ pc = "summarise"
    /\ quick_summary' = generate_quick_summary(diagnosis)
    /\ pc' = "summarised"
    /\ UNCHANGED <<api_key, season_year, env_api_key, genai_key, requests,
                   narrative>>
    /\ UNCHANGED <<fetcher_vars, moment_vars, ui_vars>>
    /\ UNCHANGED <<trace, lookup, provider, first_name, last_name, player_id,
                   df, early_df, mid_df, late_df, early_metrics, mid_metrics,
                   late_metrics, diagnosis, error, segment_df, metrics,
                   early_val, mid_val, late_val, trend>>

SpecSummary == InitSummary /\ [][QuickSummary]_vars

-----------------------------------------------------------------------------
(* data_fetcher.py: get_game_data *)

\* df[(df['home_team'] == team_code) | (df['away_team'] == team_code)].copy()
TeamRows(frame, code) ==
    LET Involved(r) == r["home_team"] = code \/ r["away_team"] = code
    IN  [columns |-> frame.columns, rows |-> SelectSeq(frame.rows, Involved)]

\* mutant of FirstGame: every game of the team that day is kept
FirstGame_AllGames(frame) == frame

\* unique_games = team_game_df['game_pk'].unique(); game_pk = unique_games[0];
\* team_game_df[team_game_df['game_pk'] == game_pk]
FirstGame(frame) ==
    LET unique_games == Column(frame, "game_pk")
        game_pk == unique_games[1]
        Same(r) == r["game_pk"] = game_pk
    IN  [columns |-> frame.columns, rows |-> SelectSeq(frame.rows, Same)]

\* the body of the try block, given the outcome of statcast(): the value
\* returned, or the exception raised inside the block
GameDataBody(out, code) ==
    IF ~out.ok THEN Raise(out.err)
    ELSE IF out.val = None THEN Ok(None)
    ELSE IF out.val.rows = <<>> THEN Ok(None)
    ELSE IF "home_team" \notin out.val.columns THEN Raise(KeyError("home_team"))
    ELSE IF "away_team" \notin out.val.columns THEN Raise(KeyError("away_team"))
    ELSE LET team_rows == TeamRows(out.val, code)
         IN  IF team_rows.rows = <<>> THEN Ok(None)
             ELSE IF "game_pk" \notin team_rows.columns
                  THEN Raise(KeyError("game_pk"))
                  ELSE Ok(FirstGame(team_rows))

\* get_game_data(game_date, team_code): except Exception: return None
get_game_data(out, code) ==
    LET body == GameDataBody(out, code)
    IN  IF body.ok THEN body ELSE Ok(None)

GameColumns == {"game_pk", "home_team", "away_team", "inning"}

\* the games of the day: a doubleheader in New York and a game in Los Angeles
GamesOfDay ==
    <<[game_pk |-> 745001, home_team |-> "NYY", away_team |-> "BOS"],
      [game_pk |-> 745002, home_team |-> "NYY", away_team |-> "BOS"],
      [game_pk |-> 745003, home_team |-> "LAD", away_team |-> "SF"]>>

\* a day's table: the j-th record is of game picks[j]
DayTable(picks, cols) ==
    [columns |-> cols,
     rows |-> [j \in DOMAIN picks |->
        [c \in cols |-> IF c = "inning" THEN j ELSE GamesOfDay[picks[j]][c]]]]

\* what statcast() does: it raises, returns None, or returns a table of
\* 0 .. MaxRows records
StatcastOutcomes ==
    {Raise([type |-> "ConnectionError", msg |-> "no route to host"]), Ok(None)}
    \cup {Ok(DayTable(picks, cols)) :
             picks \in UNION {[1..len -> DOMAIN GamesOfDay] : len \in 0..MaxRows},
             cols \in {GameColumns, GameColumns \ {"game_pk"},
                       GameColumns \ {"away_team"}}}

InitGame ==
    /\ pc = "get_game_data"
    /\ provider \in StatcastOutcomes
    /\ team_code \in {"NYY", "BOS", "SF", "SEA"}
    /\ team_game_df = None
    /\ NarrativeIdle /\ MomentsIdle /\ UiIdle
    /\ trace = <<>> /\ lookup = <<>>
    /\ first_name = "" /\ last_name = "" /\ player_id = None
    /\ df = None /\ early_df = None /\ mid_df = None /\ late_df = None
    /\ early_metrics = None /\ mid_metrics = None /\ late_metrics = None
    /\ diagnosis = None /\ error = None /\ segment_df = None /\ metrics = None
    /\ early_val = None /\ mid_val = None /\ late_val = None /\ trend = ""

\* team_game_df = get_game_data(game_date, team_code)
GetGameData ==
    /\ pc = "get_game_data"
    /\ LET r == get_game_data(provider, team_code)
       IN  IF r.ok
           THEN team_game_df' = r.val /\ pc' = "returned" /\ UNCHANGED error
           ELSE error' = r.err /\ pc' = "raised" /\ UNCHANGED team_game_df
    /\ UNCHANGED <<team_code, narrative_vars, moment_vars, ui_vars>>
    /\ UNCHANGED <<trace, lookup, provider, first_name, last_name, player_id,
                   df, early_df, mid_df, late_df, early_metrics, mid_metrics,
                   late_metrics, diagnosis, segment_df, metrics, early_val,
                   mid_val, late_val, trend>>

SpecGame == InitGame /\ [][GetGameData]_vars

-----------------------------------------------------------------------------
(* narrative_engine.py: extract_key_moments *)

\* df['events'].notna() & (df['events'] != 'null')
HasEvent(r) == r["events"] # None /\ r["events"] # Some("null")

\* action_plays: the rows (by position in df) that have an event
ActionPlays(frame) == {i \in DOMAIN frame.rows : HasEvent(frame.rows[i])}

\* action_plays['importance']: |delta_run_exp| (None for NaN), 0 without
\* the column
Importance(frame, i) ==
    IF "delta_run_exp" \in frame.columns
    THEN (IF IsNone(frame.rows[i]["delta_run_exp"]) THEN None
          ELSE Some(Abs(Val(frame.rows[i]["delta_run_exp"]))))
    ELSE Some(0)

\* the ways to put the rows S in a sequence
Arrangements(S) ==
    {p \in [1..Cardinality(S) -> S] :
        \A a, b \in 1..Cardinality(S) : a # b => p[a] # p[b]}

\* sort_values(by='importance', ascending=False).head(top_n): the rows with
\* the larger importance first, NaN last, ties in any order (the sort is
\* not stable), cut after top_n
TopPlays(frame, n) ==
    LET Above(x, y) ==
            /\ Importance(frame, x) # None
            /\ \/ Importance(frame, y) = None
               \/ Val(Importance(frame, x)) > Val(Importance(frame, y))
        Descending(p) == \A a, b \in DOMAIN p : a < b => ~Above(p[b], p[a])
    IN  {PySlice(p, 0, n) : p \in {q \in Arrangements(ActionPlays(frame)) :
                                      Descending(q)}}

\* mutant of InAtBatOrder: the plays are left in importance order
InAtBatOrder_Skipped(frame, top) == {top}

\* if 'at_bat_number' in top_plays.columns:
\*     top_plays = top_plays.sort_values('at_bat_number')
InAtBatOrder(frame, top) ==
    IF "at_bat_number" \in frame.columns
    THEN {q \in Arrangements(Range(top)) :
            \A a, b \in DOMAIN q : a < b =>
                frame.rows[q[a]]["at_bat_number"] <= frame.rows[q[b]]["at_bat_number"]}
    ELSE {top}

\* play.get(c): the cell, None when the play has no such field
Get(play, c) == IF c \in DOMAIN play THEN play[c] ELSE None

\* the moment built from a play
Moment(play) ==
    [game_date |-> Get(play, "game_date"),
     inning |-> Get(play, "inning"),
     inning_topbot |-> Get(play, "inning_topbot"),
     outs |-> Get(play, "outs_when_up"),
     home_score |-> Get(play, "home_score"),
     away_score |-> Get(play, "away_score"),
     batter |-> IF "player_name" \in DOMAIN play THEN Get(play, "player_name")
                ELSE Get(play, "batter"),
     pitcher |-> Get(play, "pitcher"),
     event |-> Get(play, "events"),
     description |-> Get(play, "des"),
     metrics |-> [release_speed |-> Get(play, "release_speed"),
                  pitch_type |-> Get(play, "pitch_type"),
                  launch_speed |-> Get(play, "launch_speed"),
                  launch_angle |-> Get(play, "launch_angle"),
                  hit_distance |-> Get(play, "hit_distance_sc")]]

\* the metadata of the game: the teams, the final score and the result
GameMetadata(frame) ==
    LET final_home == MaxSeq(Column(frame, "home_score"))
        final_away == MaxSeq(Column(frame, "away_score"))
        home_team == IF "home_team" \in frame.columns
                     THEN frame.rows[1]["home_team"] ELSE "Home"
        away_team == IF "away_team" \in frame.columns
                     THEN frame.rows[1]["away_team"] ELSE "Away"
    IN  [home_team |-> home_team, away_team |-> away_team,
         home_score |-> final_home, away_score |-> final_away,
         result |-> IF final_home > final_away THEN <<home_team, " wins">>
                    ELSE IF final_away > final_home THEN <<away_team, " wins">>
                    ELSE <<"Tie">>]

\* extract_key_moments(df, top_n): the pairs (moments, metadata) it can return
extract_key_moments(frame, n) ==
    IF ActionPlays(frame) = {}
    THEN {[moments |-> <<>>, metadata |-> <<>>]}
    ELSE {[moments |-> [k \in DOMAIN q |-> Moment(frame.rows[q[k]])],
           metadata |-> GameMetadata(frame)] :
            q \in UNION {InAtBatOrder(frame, top) : top \in TopPlays(frame, n)}}

\* the event and the delta_run_exp (hundredths of a run) of the plays a game
\* is made of: a pitch that ends no plate appearance, four plays that end
\* one (one without a run expectancy), one whose event is the string 'null'
PlayKinds ==
    <<[events |-> None, delta_run_exp |-> Some(50)],
      [events |-> Some("single"), delta_run_exp |-> Some(0 - 30)],
      [events |-> Some("field_out"), delta_run_exp |-> Some(10)],
      [events |-> Some("walk"), delta_run_exp |-> Some(20)],
      [events |-> Some("strikeout"), delta_run_exp |-> None],
      [events |-> Some("null"), delta_run_exp |-> Some(40)]>>

PlayColumns ==
    {"events", "des", "delta_run_exp", "at_bat_number", "home_score",
     "away_score", "home_team", "away_team"}

\* a game's table: the j-th record is of kind picks[j]; the records are in
\* at-bat order, or most recent first as the provider sends them
GameTable(picks, order, cols) ==
    [columns |-> cols,
     rows |-> [j \in DOMAIN picks |->
        LET at_bat == IF order = "asc" THEN j ELSE Len(picks) + 1 - j
        IN  [c \in cols |->
               CASE c = "des" -> <<"play", at_bat>>
                 [] c = "at_bat_number" -> at_bat
                 [] c = "home_score" -> at_bat - 1
                 [] c = "away_score" -> 1
                 [] c = "home_team" -> "NYY"
                 [] c = "away_team" -> "BOS"
                 [] OTHER -> PlayKinds[picks[j]][c]]]]

InitMoments ==
    /\ pc = "extract"
    /\ \E len \in 0..MaxPlays :
         \E picks \in [1..len -> DOMAIN PlayKinds], order \in {"asc", "desc"},
            cols \in {PlayColumns, PlayColumns \ {"delta_run_exp"},
                      PlayColumns \ {"at_bat_number"}} :
            df = GameTable(picks, order, cols)
    /\ top_n \in {1, 2, 5}
    /\ moments = <<>> /\ metadata = None
    /\ NarrativeIdle /\ FetcherIdle /\ UiIdle
    /\ trace = <<>> /\ lookup = <<>> /\ provider = None
    /\ first_name = "" /\ last_name = "" /\ player_id = None
    /\ early_df = None /\ mid_df = None /\ late_df = None
    /\ early_metrics = None /\ mid_metrics = None /\ late_metrics = None
    /\ diagnosis = None /\ error = None /\ segment_df = None /\ metrics = None
    /\ early_val = None /\ mid_val = None /\ late_val = None /\ trend = ""

\* moments, metadata = extract_key_moments(df, top_n)
ExtractKeyMoments ==
    /\ pc = "extract"
    /\ \E r \in extract_key_moments(df, top_n) :
          moments' = r.moments /\ metadata' = r.metadata
    /\ pc' = "extracted"
    /\ UNCHANGED <<top_n, narrative_vars, fetcher_vars, ui_vars>>
    /\ UNCHANGED <<trace, lookup, provider, first_name, last_name, player_id,
                   df, early_df, mid_df, late_df, early_metrics, mid_metrics,
                   late_metrics, diagnosis, error, segment_df, metrics,
                   early_val, mid_val, late_val, trend>>

SpecMoments == InitMoments /\ [][ExtractKeyMoments]_vars

-----------------------------------------------------------------------------
(* app.py: season_diagnosis_ui *)

\* get_full_analysis(last_name, first_name, start_date, end_date), given what
\* playerid_lookup and statcast_batter return: the diagnosis, or the error of
\* the first stage that raises
get_full_analysis(found, frame, last, first, start_date, end_date) ==
    LET id == get_player_id(found, last, first)
        fetched == fetch_statcast_data(frame, start_date, end_date)
        windows == slice_by_game_index(fetched.val)
        e_metrics == aggregate_metrics(windows.val.early, "Early")
        m_metrics == aggregate_metrics(windows.val.mid, "Mid")
        l_metrics == aggregate_metrics(windows.val.late, "Late")
    IN  IF ~id.ok THEN id
        ELSE IF ~fetched.ok THEN fetched
        ELSE IF ~windows.ok THEN windows
        ELSE IF ~e_metrics.ok THEN e_metrics
        ELSE IF ~m_metrics.ok THEN m_metrics
        ELSE IF ~l_metrics.ok THEN l_metrics
        ELSE Ok(build_diagnosis_json(FullName(first, last), e_metrics.val,
                                     m_metrics.val, l_metrics.val))

\* SEASON_DATES: the date range of each entry of the season selectbox
SEASON_DATES ==
    [selected_season \in {<<y, "season">> : y \in {"2024", "2023", "2022", "2021", "2020"}} |->
        CASE selected_season[1] = "2024" -> <<"2024-03-20", "2024-10-31">>
          [] selected_season[1] = "2023" -> <<"2023-03-30", "2023-10-01">>
          [] selected_season[1] = "2022" -> <<"2022-04-07", "2022-10-05">>
          [] selected_season[1] = "2021" -> <<"2021-04-01", "2021-10-03">>
          [] OTHER -> <<"2020-07-23", "2020-09-27">>]

\* what playerid_lookup returns for a name
playerid_lookup(last, first) ==
    IF <<first, last>> = <<"Shohei", "Ohtani">> THEN <<660271>>
    ELSE IF <<first, last>> = <<"Aaron", "Judge">> THEN <<592450>>
    ELSE <<>>

\* what statcast_batter returns for a player and a date range
statcast_batter(start_date, found) ==
    CASE found = <<660271>> /\ start_date = "2024-03-20" ->
            Stream(30, "rising", "desc", "regular", StatcastColumns)
      [] found = <<592450>> /\ start_date = "2024-03-20" ->
            Stream(31, "fading", "desc", "regular", StatcastColumns)
      [] found = <<660271>> /\ start_date = "2023-03-30" ->
            Stream(30, "linear", "split", "regular", StatcastColumns)
      [] found = <<592450>> /\ start_date = "2023-03-30" ->
            Stream(12, "sparse", "desc", "regular", StatcastColumns)
      [] OTHER -> Stream(0, "sparse", "desc", "regular", StatcastColumns)

\* get_api_key(): the environment's key when it is a real one, else
\* st.session_state.get('api_key', ''), which no page sets
get_api_key(env_key) ==
    IF ~NoKey(env_key) /\ env_key # Some(PlaceholderKey) THEN env_key ELSE Some("")

\* the session state of a new session: no key is set
NewSession ==
    [diagnosis |-> None, player_name |-> None, season |-> None, ai_report |-> None]

\* the part of the page below the start button: the results of the
\* diagnosis held in session state, the report button, and the report held
Render(session, err) ==
    IF session.diagnosis # None
    THEN [error |-> err,
          diagnosis |-> session.diagnosis,
          quick_summary |-> Some(generate_quick_summary(session.diagnosis)),
          report_button |-> TRUE,
          ai_report |-> session.ai_report]
    ELSE [error |-> err, diagnosis |-> None, quick_summary |-> None,
          report_button |-> FALSE, ai_report |-> None]

\* the names typed and the seasons selected
NamesTyped == {<<"Shohei", "Ohtani">>, <<"Aaron", "Judge">>, <<"Babe", "Nobody">>}
SeasonsSelected == {<<"2024", "season">>, <<"2023", "season">>}

InitUi ==
    /\ pc = "page"
    /\ env_api_key \in {None, Some(PlaceholderKey), Some("AIza-dotenv")}
    /\ session_state = NewSession
    /\ display = Render(NewSession, None)
    /\ api_key = None /\ season_year = "" /\ genai_key = None
    /\ requests = <<>> /\ narrative = None /\ quick_summary = None
    /\ FetcherIdle /\ MomentsIdle
    /\ trace = <<>> /\ lookup = <<>> /\ provider = None
    /\ first_name = "" /\ last_name = "" /\ player_id = None
    /\ df = None /\ early_df = None /\ mid_df = None /\ late_df = None
    /\ early_metrics = None /\ mid_metrics = None /\ late_metrics = None
    /\ diagnosis = None /\ error = None /\ segment_df = None /\ metrics = None
    /\ early_val = None /\ mid_val = None /\ late_val = None /\ trend = ""

\* a run of the page with the start button pressed: the analysis, then the
\* three session keys and the results; on an error st.error and return
StartAnalysis ==
    /\ pc = "page"
    /\ \E name \in NamesTyped, selected_season \in SeasonsSelected :
          LET start_date == SEASON_DATES[selected_season][1]
              end_date == SEASON_DATES[selected_season][2]
              found == playerid_lookup(name[2], name[1])
              r == get_full_analysis(found, statcast_batter(start_date, found),
                                     name[2], name[1], start_date, end_date)
              session == [session_state EXCEPT
                            !.diagnosis = r.val,
                            !.player_name = Some(FullName(name[1], name[2])),
                            !.season = Some(selected_season[1])]
          IN  IF r.ok
              THEN /\ session_state' = session
                   /\ display' = Render(session, None)
              ELSE /\ display' = Render(NewSession, Some(r.err))
                   /\ UNCHANGED session_state
    /\ UNCHANGED <<pc, narrative_vars, fetcher_vars, moment_vars>>
    /\ UNCHANGED <<trace, lookup, provider, first_name, last_name, player_id,
                   df, early_df, mid_df, late_df, early_metrics, mid_metrics,
                   late_metrics, diagnosis, error, segment_df, metrics,
                   early_val, mid_val, late_val, trend>>

\* a run of the page with the report button pressed: the report of the
\* diagnosis held in session state is asked for and kept under ai_report
GenerateReport ==
    /\ pc = "page"
    /\ display.report_button
    /\ Len(requests) < MaxReports
    /\ LET key == get_api_key(env_api_key)
           season == IF session_state.season # None
                     THEN Val(session_state.season) ELSE "2024"
           model == configure_gemini(key, env_api_key)
       IN  IF NoKey(key)
           THEN /\ display' = Render(session_state, Some("OPENAI_API_KEY not set"))
                /\ UNCHANGED <<session_state, requests, genai_key>>
           ELSE IF ~model.ok
           THEN /\ display' = Render(session_state, Some(model.err))
                /\ UNCHANGED <<session_state, requests, genai_key>>
           ELSE \E answer \in Answers :
                  LET ai_report == IF answer.ok THEN Some(<<answer.val>>)
                                   ELSE Some(<<"AI report error: ", answer.err.msg>>)
                      session == [session_state EXCEPT !.ai_report = ai_report]
                  IN  /\ genai_key' = model.val.api_key
                      /\ requests' = Append(requests,
                            [api_key |-> model.val.api_key,
                             model |-> model.val.model,
                             system |-> "SCOUT_SYSTEM_PROMPT",
                             prompt |-> AnalysisPrompt(session_state.diagnosis, season)])
                      /\ session_state' = session
                      /\ display' = Render(session, None)
    /\ UNCHANGED <<pc, api_key, season_year, env_api_key, narrative,
                   quick_summary, fetcher_vars, moment_vars>>
    /\ UNCHANGED <<trace, lookup, provider, first_name, last_name, player_id,
                   df, early_df, mid_df, late_df, early_metrics, mid_metrics,
                   late_metrics, diagnosis, error, segment_df, metrics,
                   early_val, mid_val, late_val, trend>>

\* a run of the page with no button pressed (another widget was used)
Rerun ==
    /\ pc = "page"
    /\ display' = Render(session_state, None)
    /\ UNCHANGED <<pc, session_state, narrative_vars, fetcher_vars, moment_vars>>
    /\ UNCHANGED <<trace, lookup, provider, first_name, last_name, player_id,
                   df, early_df, mid_df, late_df, early_metrics, mid_metrics,
                   late_metrics, diagnosis, error, segment_df, metrics,
                   early_val, mid_val, late_val, trend>>

NextUi == StartAnalysis \/ GenerateReport \/ Rerun

SpecUi == InitUi /\ [][NextUi]_vars

-----------------------------------------------------------------------------
(* Properties of the slicer *)

\* the distinct game dates of a frame, as timestamps
DateSet(frame) ==
    {to_datetime(frame.rows[i]["game_date"]) : i \in DOMAIN frame.rows}

\* the 0-based position of date d among the sorted distinct dates D
Rank(d, D) == Cardinality({e \in D : e < d})

\* the records of the caller's frame whose date has a rank in lo .. hi-1,
\* with the date as a timestamp
RecordsRanked(frame, lo, hi) ==
    LET D == DateSet(frame)
        Keep(r) == Rank(r["game_date"], D) >= lo /\ Rank(r["game_date"], D) < hi
    IN  SelectSeq(ConvertDates(frame).rows, Keep)

\* the records of a window, without the game_index column the slicer added
Records(window) ==
    [i \in DOMAIN window.rows |->
        [c \in window.columns \ {"game_index"} |-> window.rows[i][c]]]

WindowDates(window) == {window.rows[i]["game_date"] : i \in DOMAIN window.rows}

Sliced == pc = "aggregate_early"

\* C1: a stream with fewer than 30 distinct game dates (29 and 0 included)
\* makes slice_by_game_index raise the insufficient-sample error, which names
\* the observed count and the minimum 30; no window is returned.
C1_InsufficientSample ==
    (pc # "slice" /\ Cardinality(DateSet(df)) < 30) =>
        /\ pc = "raised"
        /\ error.type = "ValueError"
        /\ error.msg = "insufficient sample"
        /\ error.n_games = Cardinality(DateSet(df))
        /\ error.required = 30
        /\ early_df = None /\ mid_df = None /\ late_df = None

C1_Witness ==
    /\ pc = "raised"
    /\ Cardinality(DateSet(df)) = 29
    /\ error.n_games = 29

\* C2: with at least 30 distinct dates, Early holds exactly the records of
\* the 10 earliest dates, Late exactly those of the 10 latest dates, and the
\* two date sets are disjoint.
C2_EarlyLateWindows ==
    (pc # "slice" /\ Cardinality(DateSet(df)) >= 30) =>
        LET n == Cardinality(DateSet(df))
        IN  /\ Sliced
            /\ Records(early_df) = RecordsRanked(df, 0, 10)
            /\ Records(late_df) = RecordsRanked(df, n - 10, n)
            /\ Cardinality(WindowDates(early_df)) = 10
            /\ Cardinality(WindowDates(late_df)) = 10
            /\ \A d \in WindowDates(early_df), e \in WindowDates(late_df) : d < e
            /\ WindowDates(early_df) \cap WindowDates(late_df) = {}

C2_Witness ==
    /\ Sliced
    /\ Cardinality(DateSet(df)) = 30
    /\ Len(early_df.rows) = 20
    /\ Len(late_df.rows) = 20
    /\ to_datetime(df.rows[1]["game_date"]) \in WindowDates(late_df)

\* C3: with n >= 30 distinct dates, Mid holds exactly the records whose date
\* is at sorted index i, c-5 <= i < c+5, c = n // 2: always 10 distinct
\* dates; n = 30 and n = 31 give [10,20), n = 45 gives [17,27).
C3_MidWindow ==
    (pc # "slice" /\ Cardinality(DateSet(df)) >= 30) =>
        LET D == DateSet(df)
            n == Cardinality(D)
            c == n \div 2
            ranks == {Rank(d, D) : d \in WindowDates(mid_df)}
        IN  /\ Sliced
            /\ Records(mid_df) = RecordsRanked(df, c - 5, c + 5)
            /\ Cardinality(WindowDates(mid_df)) = 10
            /\ WindowDates(mid_df) \subseteq D
            /\ n = 30 => ranks = 10..19
            /\ n = 31 => ranks = 10..19
            /\ n = 45 => ranks = 17..26

C3_Witness ==
    /\ Sliced
    /\ Cardinality(DateSet(df)) = 45
    /\ {Rank(d, DateSet(df)) : d \in WindowDates(mid_df)} = 17..26

\* the sorted indices of the game dates of a window
WindowRanks(window) == {Rank(d, DateSet(df)) : d \in WindowDates(window)}

\* C15, as the spec states it: for exactly 30 games the windows overlap,
\* Early covers indices 0-9, Mid 10-20 and Late 20-29, so Mid and Late share
\* index 20.
C15_ThirtyGamesOverlap ==
    (Sliced /\ Cardinality(DateSet(df)) = 30) =>
        /\ WindowRanks(early_df) = 0..9
        /\ WindowRanks(mid_df) = 10..20
        /\ WindowRanks(late_df) = 20..29
        /\ WindowRanks(mid_df) \cap WindowRanks(late_df) = {20}

\* C15, amended: for exactly 30 games the windows do not overlap: Early
\* covers indices 0-9, Mid 10-19 and Late 20-29; Mid and Late share no index
\* and no record.
C15_ThirtyGamesAbut ==
    (Sliced /\ Cardinality(DateSet(df)) = 30) =>
        /\ WindowRanks(early_df) = 0..9
        /\ WindowRanks(mid_df) = 10..19
        /\ WindowRanks(late_df) = 20..29
        /\ WindowRanks(mid_df) \cap WindowRanks(late_df) = {}
        /\ Range(mid_df.rows) \cap Range(late_df.rows) = {}
        /\ Len(early_df.rows) + Len(mid_df.rows) + Len(late_df.rows) = Len(df.rows)

C15_Witness ==
    /\ Sliced
    /\ Cardinality(DateSet(df)) = 30
    /\ WindowRanks(mid_df) = 10..19
    /\ 20 \in WindowRanks(late_df)
    /\ Len(mid_df.rows) = 20

-----------------------------------------------------------------------------
(* Properties of the aggregator *)

Aggregated == pc = "aggregated"

\* every column aggregate_metrics reads is a column of the window
AllFieldsPresent == Range(ColumnsRead) \subseteq segment_df.columns

\* how many records of the window have field c in the set S
RecordsWith(c, S) ==
    Cardinality({i \in DOMAIN segment_df.rows : segment_df.rows[i][c] \in S})

\* how many records of the window have a non-null field c
RecordsHaving(c) ==
    Cardinality({i \in DOMAIN segment_df.rows : segment_df.rows[i][c] # None})

\* the denominator of each ratio metric, counted record by record
Denominator(metric) ==
    CASE metric = "hard_hit_rate" -> RecordsHaving("launch_speed")
      [] metric = "whiff_rate" ->
            RecordsWith("description", {Some(d) : d \in SwingDescriptions})
      [] metric \in {"bb_rate", "k_rate"} -> RecordsHaving("events")
      [] metric = "babip" ->
            RecordsWith("events",
                {Some(e) : e \in (AtBatEvents \ {"strikeout", "home_run"})
                                   \cup {"sac_fly"}})
      [] OTHER ->
            RecordsWith("events",
                {Some(e) : e \in AtBatEvents \cup {"walk", "hit_by_pitch", "sac_fly"}})

RatioMetrics == {"hard_hit_rate", "whiff_rate", "bb_rate", "k_rate", "babip", "woba"}

\* C5: for every window (the empty one and the all-null ones included)
\* aggregate_metrics returns, and each ratio metric is null exactly when its
\* denominator is zero and a number otherwise; hard_hit_rate of a window
\* without a launch_speed is null, not 0.
C5_ZeroDenominatorIsNull ==
    (Aggregated /\ AllFieldsPresent) =>
        /\ metrics.ok
        /\ \A m \in RatioMetrics :
              /\ (metrics.val[m] = None) <=> (Denominator(m) <= 0)
              /\ metrics.val[m] # None =>
                    /\ Len(metrics.val[m]) = 1
                    /\ Val(metrics.val[m]) \in Nat
        /\ RecordsHaving("launch_speed") = 0 =>
              metrics.val["hard_hit_rate"] # Some(0)

C5_Witness ==
    /\ Aggregated /\ AllFieldsPresent
    /\ Len(segment_df.rows) = 2
    /\ RecordsHaving("events") = 2
    /\ metrics.ok
    /\ metrics.val["hard_hit_rate"] = None
    /\ metrics.val["whiff_rate"] = None
    /\ metrics.val["babip"] = None
    /\ metrics.val["bb_rate"] = Some(50 * Scale)
    /\ metrics.val["woba"] # None

\* the window's only terminal event is one single
OnlyOneSingle ==
    /\ "events" \in segment_df.columns
    /\ DropNa(Column(segment_df, "events")) = <<"single">>

\* C6, as the spec states it: a window whose only terminal event is one
\* single yields babip = null.
C6_OneSingleBabipNull ==
    (Aggregated /\ AllFieldsPresent /\ OnlyOneSingle) =>
        metrics.ok /\ metrics.val["babip"] = None

\* C6, amended: for such a window the babip denominator
\* at_bats - strikeouts - home_runs + sac_flies is 1 (the single is an
\* at-bat), and babip is 1.000.
C6_OneSingleBabipOne ==
    (Aggregated /\ AllFieldsPresent /\ OnlyOneSingle) =>
        /\ metrics.ok
        /\ Denominator("babip") = 1
        /\ metrics.val["babip"] = Some(1 * Scale3)

C6_Witness ==
    /\ Aggregated /\ AllFieldsPresent /\ OnlyOneSingle
    /\ Len(segment_df.rows) = 3
    /\ metrics.ok
    /\ metrics.val["babip"] = Some(1 * Scale3)
    /\ metrics.val["plate_appearances"] = 1

\* the window with each absent optional column added, every value null
AbsentAsNull(frame) ==
    [columns |-> frame.columns \cup OptionalColumns,
     rows |-> [i \in DOMAIN frame.rows |->
        [c \in frame.columns \cup OptionalColumns |->
            IF c \in frame.columns THEN frame.rows[i][c] ELSE None]]]

\* C9: a field other than game_date that is absent from the upstream
\* records is treated as all-null: aggregate_metrics raises nothing and
\* returns what it returns for the same records with that field null.
C9_AbsentFieldIsNull ==
    (Aggregated /\ "game_date" \in segment_df.columns) =>
        /\ metrics.ok
        /\ metrics.val = Metrics(AbsentAsNull(segment_df), "Window")

\* the window without the records whose field c is null
WithoutNull(frame, c) ==
    LET Present(r) == r[c] # None
    IN  [columns |-> frame.columns, rows |-> SelectSeq(frame.rows, Present)]

\* round-half-even of 100 * num / den percent, in hundredths; null when den = 0
Share(num, den) == IF den > 0 THEN Some(RoundDiv(num * 10000, den)) ELSE None

\* C14: records with a null field are left out of numerator and denominator:
\* hard_hit_rate and avg_launch_speed are taken over the records with a
\* non-null launch_speed, bb_rate and k_rate over those with a non-null event
\* type, whiff_rate over those whose description is one of the five swing
\* descriptions; the records whose relevant field is null change none of
\* these metrics.
C14_NullsExcluded ==
    (Aggregated /\ AllFieldsPresent) =>
        LET speeds == {Some(v * Scale) : v \in 0..130}
            hard == {Some(v * Scale) : v \in 96..130}
            noSpeed == Metrics(WithoutNull(segment_df, "launch_speed"), "Window")
            noEvent == Metrics(WithoutNull(segment_df, "events"), "Window")
            noDesc == Metrics(WithoutNull(segment_df, "description"), "Window")
        IN  /\ metrics.ok
            /\ RecordsHaving("launch_speed") = RecordsWith("launch_speed", speeds)
            /\ metrics.val["hard_hit_rate"] =
                  Share(RecordsWith("launch_speed", hard), RecordsHaving("launch_speed"))
            /\ (metrics.val["avg_launch_speed"] = None)
                  <=> (RecordsHaving("launch_speed") = 0)
            /\ metrics.val["bb_rate"] =
                  Share(RecordsWith("events", {Some("walk")}), RecordsHaving("events"))
            /\ metrics.val["k_rate"] =
                  Share(RecordsWith("events", {Some("strikeout")}),
                        RecordsHaving("events"))
            /\ metrics.val["whiff_rate"] =
                  Share(RecordsWith("description",
                                    {Some(d) : d \in MissDescriptions}),
                        RecordsWith("description",
                                    {Some(d) : d \in SwingDescriptions}))
            /\ metrics.val["hard_hit_rate"] = noSpeed["hard_hit_rate"]
            /\ metrics.val["avg_launch_speed"] = noSpeed["avg_launch_speed"]
            /\ metrics.val["bb_rate"] = noEvent["bb_rate"]
            /\ metrics.val["k_rate"] = noEvent["k_rate"]
            /\ metrics.val["whiff_rate"] = noDesc["whiff_rate"]

C14_Witness ==
    /\ Aggregated /\ AllFieldsPresent
    /\ Len(segment_df.rows) = 3
    /\ RecordsHaving("launch_speed") = 1
    /\ RecordsHaving("events") = 2
    /\ RecordsHaving("description") = 2
    /\ metrics.ok
    /\ metrics.val["hard_hit_rate"] = Some(100 * Scale)
    /\ metrics.val["k_rate"] = Some(50 * Scale)
    /\ metrics.val["whiff_rate"] = Some(50 * Scale)

\* the count metrics of a SegmentMetrics
CountMetrics == {"games", "plate_appearances", "home_runs", "walks", "strikeouts"}

\* C11: the count metrics games, plate_appearances, home_runs, walks and
\* strikeouts are never null: they are non-negative integers, 0 when no
\* record matches; plate_appearances is the number of records with a
\* non-null event type, and home_runs + walks + strikeouts is at most
\* plate_appearances.
C11_CountsNeverNull ==
    (Aggregated /\ AllFieldsPresent) =>
        /\ metrics.ok
        /\ \A m \in CountMetrics : metrics.val[m] \in Nat
        /\ metrics.val["games"] = Cardinality(WindowDates(segment_df))
        /\ metrics.val["plate_appearances"] = RecordsHaving("events")
        /\ metrics.val["home_runs"] = RecordsWith("events", {Some("home_run")})
        /\ metrics.val["walks"] = RecordsWith("events", {Some("walk")})
        /\ metrics.val["strikeouts"] = RecordsWith("events", {Some("strikeout")})
        /\ metrics.val["home_runs"] + metrics.val["walks"]
              + metrics.val["strikeouts"] <= metrics.val["plate_appearances"]
        /\ segment_df.rows = <<>> => \A m \in CountMetrics : metrics.val[m] = 0

C11_Witness ==
    /\ Aggregated /\ AllFieldsPresent
    /\ Len(segment_df.rows) = 3
    /\ metrics.ok
    /\ metrics.val["games"] = 2
    /\ metrics.val["plate_appearances"] = 2
    /\ metrics.val["home_runs"] = 1
    /\ metrics.val["walks"] = 1
    /\ metrics.val["strikeouts"] = 0

\* the numerator of each ratio metric but woba, counted record by record
Numerator(metric) ==
    CASE metric = "hard_hit_rate" ->
            Cardinality({i \in DOMAIN segment_df.rows :
                /\ segment_df.rows[i]["launch_speed"] # None
                /\ Val(segment_df.rows[i]["launch_speed"]) > 9500})
      [] metric = "whiff_rate" ->
            RecordsWith("description", {Some(d) : d \in MissDescriptions})
      [] metric = "bb_rate" -> RecordsWith("events", {Some("walk")})
      [] metric = "k_rate" -> RecordsWith("events", {Some("strikeout")})
      [] OTHER ->
            RecordsWith("events", {Some("single"), Some("double"), Some("triple")})

\* C21: for every window the ratio metrics stay in range: for hard_hit_rate,
\* whiff_rate, bb_rate, k_rate and babip the numerator count is between 0
\* and the denominator count, so the percentages lie in [0,100], bb_rate +
\* k_rate <= 100 and babip lies in [0,1]; the babip and woba denominators
\* are never negative.
C21_RatiosInRange ==
    (Aggregated /\ AllFieldsPresent) =>
        LET events == DropNa(Column(segment_df, "events"))
            Percents == {"hard_hit_rate", "whiff_rate", "bb_rate", "k_rate"}
        IN  /\ metrics.ok
            /\ \A m \in Percents \cup {"babip"} :
                  /\ 0 <= Numerator(m)
                  /\ Numerator(m) <= Denominator(m)
            /\ \A m \in Percents : metrics.val[m] # None =>
                  /\ Val(metrics.val[m]) = RoundDiv(Numerator(m) * 10000, Denominator(m))
                  /\ Val(metrics.val[m]) \in 0..10000
            /\ (metrics.val["bb_rate"] # None /\ metrics.val["k_rate"] # None) =>
                  Val(metrics.val["bb_rate"]) + Val(metrics.val["k_rate"]) <= 10000
            /\ metrics.val["babip"] # None =>
                  /\ Val(metrics.val["babip"])
                        = RoundDiv(Numerator("babip") * 1000, Denominator("babip"))
                  /\ Val(metrics.val["babip"]) \in 0..1000
            /\ BabipDenominator(events) = Denominator("babip")
            /\ BabipDenominator(events) >= 0
            /\ WobaDenominator(events) = Denominator("woba")
            /\ WobaDenominator(events) >= 0

C21_Witness ==
    /\ Aggregated /\ AllFieldsPresent
    /\ Len(segment_df.rows) = 3
    /\ metrics.ok
    /\ metrics.val["bb_rate"] = Some(3333)
    /\ metrics.val["k_rate"] = Some(3333)
    /\ metrics.val["whiff_rate"] = Some(5000)
    /\ metrics.val["hard_hit_rate"] = Some(10000)
    /\ metrics.val["babip"] = Some(1000)

-----------------------------------------------------------------------------
(* Properties of the trend classifier *)

TrendLabels == {"insufficient_data", "stable", "increasing", "decreasing"}

\* the label the contract gives to an Early and a Late value (hundredths)
ContractTrend(e_val, l_val) ==
    IF e_val = None \/ l_val = None THEN "insufficient_data"
    ELSE IF Val(l_val) - Val(e_val) >= 100 THEN "increasing"
    ELSE IF Val(l_val) - Val(e_val) <= 0 - 100 THEN "decreasing"
    ELSE "stable"

\* C4: the trend label is one of the four, and is decided by the Early and
\* Late values alone, whatever the Mid value: insufficient_data if either is
\* null, else stable when |late - early| < 1, increasing when late - early
\* >= 1, decreasing when late - early <= -1 (88.0/89.5 increasing, 90.0/90.3
\* stable, 95.0/92.0 decreasing, exactly 1 increasing, exactly -1 decreasing).
C4_TrendClassifier ==
    pc = "classified" =>
        /\ trend \in TrendLabels
        /\ trend = ContractTrend(early_val, late_val)
        /\ (early_val = Some(8800) /\ late_val = Some(8950)) => trend = "increasing"
        /\ (early_val = Some(9000) /\ late_val = Some(9030)) => trend = "stable"
        /\ (early_val = Some(9500) /\ late_val = Some(9200)) => trend = "decreasing"
        /\ (early_val = Some(8800) /\ late_val = Some(8900)) => trend = "increasing"
        /\ (early_val = Some(9000) /\ late_val = Some(8900)) => trend = "decreasing"
        /\ (early_val = Some(0) /\ late_val = Some(99)) => trend = "stable"

C4_Witness ==
    /\ pc = "classified"
    /\ early_val = Some(8800)
    /\ mid_val = Some(9500)
    /\ late_val = Some(8900)
    /\ trend = "increasing"

-----------------------------------------------------------------------------
(* Properties of the assembler and of get_full_analysis *)

Done == pc = "done"

\* C7: the diagnosis holds the player name, the three SegmentMetrics under
\* early / mid / late, and a summary whose total_games_analyzed is the sum of
\* the three windows' games and whose trend labels are those of exactly
\* avg_launch_speed, hard_hit_rate and k_rate, each given by the Early and
\* Late values of that metric.
C7_DiagnosisRecord ==
    Done =>
        /\ DOMAIN diagnosis = {"player_name", "analysis_segments", "summary"}
        /\ diagnosis.player_name = <<"Shohei", " ", "Ohtani">>
        /\ DOMAIN diagnosis.analysis_segments = {"early", "mid", "late"}
        /\ diagnosis.analysis_segments.early = early_metrics
        /\ diagnosis.analysis_segments.mid = mid_metrics
        /\ diagnosis.analysis_segments.late = late_metrics
        /\ DOMAIN diagnosis.summary =
              {"total_games_analyzed", "launch_speed_trend", "hard_hit_trend",
               "k_rate_trend"}
        /\ diagnosis.summary.total_games_analyzed =
              early_metrics.games + mid_metrics.games + late_metrics.games
        /\ diagnosis.summary.launch_speed_trend =
              ContractTrend(early_metrics.avg_launch_speed,
                            late_metrics.avg_launch_speed)
        /\ diagnosis.summary.hard_hit_trend =
              ContractTrend(early_metrics.hard_hit_rate, late_metrics.hard_hit_rate)
        /\ diagnosis.summary.k_rate_trend =
              ContractTrend(early_metrics.k_rate, late_metrics.k_rate)

C7_Witness ==
    /\ Done
    /\ diagnosis.summary.total_games_analyzed = 30
    /\ diagnosis.summary.launch_speed_trend = "increasing"
    /\ diagnosis.summary.hard_hit_trend = "increasing"
    /\ diagnosis.summary.k_rate_trend = "stable"

\* C8: round trip: the trend classifier applied again to the
\* avg_launch_speed, hard_hit_rate and k_rate stored in the diagnosis's early
\* and late segments gives the three labels stored in its summary.
C8_TrendRoundTrip ==
    Done =>
        LET seg == diagnosis.analysis_segments
            Again(m) == _calculate_trend(seg.early[m], seg.mid[m], seg.late[m])
        IN  /\ diagnosis.summary.launch_speed_trend = Again("avg_launch_speed")
            /\ diagnosis.summary.hard_hit_trend = Again("hard_hit_rate")
            /\ diagnosis.summary.k_rate_trend = Again("k_rate")

C8_Witness ==
    /\ Done
    /\ diagnosis.summary.launch_speed_trend = "decreasing"
    /\ diagnosis.summary.hard_hit_trend = "decreasing"
    /\ diagnosis.summary.k_rate_trend = "increasing"

\* a window as its records alone: without the game_index column
RecordsOnly(window) ==
    [columns |-> window.columns \ {"game_index"}, rows |-> Records(window)]

\* C12: slice_by_game_index and aggregate_metrics leave their input
\* unchanged: the caller's frame keeps its records and fields and gets no
\* game_index column, the windows are the same after each aggregation; the
\* SegmentMetrics of a window are given by that window's records and label
\* alone, whatever the other windows and the earlier calls.
C12_InputsUnchanged ==
    [][/\ pc = "slice" =>
             /\ "game_index" \notin df'.columns
             /\ df' = df
             /\ \A i \in DOMAIN df'.rows : DOMAIN df'.rows[i] = df.columns
       /\ pc \in {"aggregate_early", "aggregate_mid", "aggregate_late"} =>
             /\ df' = df
             /\ <<early_df, mid_df, late_df>>' = <<early_df, mid_df, late_df>>
       /\ pc' = "aggregate_mid" =>
             early_metrics' = Metrics(RecordsOnly(early_df), "Early")
       /\ pc' = "aggregate_late" =>
             mid_metrics' = Metrics(RecordsOnly(mid_df), "Mid")
       /\ pc' = "assemble" =>
             late_metrics' = Metrics(RecordsOnly(late_df), "Late")]_vars

C12_Witness ==
    /\ Done
    /\ "game_index" \in early_df.columns
    /\ "game_index" \notin df.columns
    /\ early_metrics.games = 10
    /\ early_metrics # late_metrics

\* the analysed stream has 40 games and every record's launch_speed rises
\* linearly with its game's place in date order, from 85 to 95 mph
LinearFortyGames ==
    /\ "launch_speed" \in df.columns
    /\ Cardinality(DateSet(df)) = 40
    /\ \A i \in DOMAIN df.rows :
          LET k == Rank(to_datetime(df.rows[i]["game_date"]), DateSet(df))
          IN  df.rows[i]["launch_speed"] = Some(8500 + RoundDiv(1000 * k, 39))

\* C13: end to end, a 40-game stream whose launch_speed rises linearly from
\* 85 to 95 across the games in date order gives launch_speed_trend =
\* increasing and an Early avg_launch_speed strictly lower than the Late one.
C13_LinearRise ==
    (Done /\ LinearFortyGames) =>
        /\ diagnosis.summary.launch_speed_trend = "increasing"
        /\ diagnosis.analysis_segments.early.avg_launch_speed # None
        /\ diagnosis.analysis_segments.late.avg_launch_speed # None
        /\ Val(diagnosis.analysis_segments.early.avg_launch_speed)
              < Val(diagnosis.analysis_segments.late.avg_launch_speed)

C13_Witness ==
    /\ Done /\ LinearFortyGames
    /\ diagnosis.summary.launch_speed_trend = "increasing"
    /\ diagnosis.analysis_segments.early.avg_launch_speed = Some(8615)
    /\ diagnosis.analysis_segments.late.avg_launch_speed = Some(9385)

\* the provider's records of regular-season games, in the order sent
RegularRecords ==
    LET Regular(r) == r["game_type"] = "R"
    IN  SelectSeq(provider.rows, Regular)

\* the fetch stage has run and raised
FetchRaised == pc = "raised" /\ trace = <<"lookup", "fetch">>

\* C16: fetch_statcast_data never returns an empty table: it raises the
\* no-data error when the provider returns no rows; when the rows carry a
\* game_type field it returns only the rows with game_type 'R' and raises if
\* none remain; no row of another game type reaches the slicer or a window.
C16_RegularSeasonOnly ==
    Len(trace) >= 2 =>
        LET typed == "game_type" \in provider.columns
        IN  /\ provider.rows = <<>> =>
                  (FetchRaised /\ error.msg = "no data" /\ df = None)
            /\ (provider.rows # <<>> /\ typed /\ RegularRecords = <<>>) =>
                  (FetchRaised /\ error.msg = "no regular season data" /\ df = None)
            /\ ~FetchRaised =>
                  /\ df # None
                  /\ df.rows # <<>>
                  /\ df.columns = provider.columns
                  /\ typed => df.rows = RegularRecords
                  /\ ~typed => df.rows = provider.rows
            /\ (typed /\ early_df # None) =>
                  \A w \in {early_df, mid_df, late_df} :
                      \A i \in DOMAIN w.rows : w.rows[i]["game_type"] = "R"

C16_Witness ==
    /\ Done
    /\ "game_type" \in provider.columns
    /\ Len(df.rows) + 10 = Len(provider.rows)
    /\ provider.rows[1]["game_type"] = "W"
    /\ df.rows[1]["game_type"] = "R"

\* C20: whenever the slicer returns (n >= 30 distinct dates), 10 <= n//2 - 5
\* and n//2 + 5 <= n - 10, so the Early, Mid and Late date sets are pairwise
\* disjoint; every diagnosis get_full_analysis returns has games = 10 in each
\* segment and total_games_analyzed = 30, no date counted twice.
C20_DisjointWindows ==
    early_df # None =>
        LET n == Cardinality(DateSet(df))
            E == WindowDates(early_df)
            M == WindowDates(mid_df)
            L == WindowDates(late_df)
        IN  /\ n >= 30
            /\ 10 <= (n \div 2) - 5
            /\ (n \div 2) + 5 <= n - 10
            /\ E \cap M = {} /\ M \cap L = {} /\ E \cap L = {}
            /\ Cardinality(E \cup M \cup L) = 30
            /\ Done =>
                  /\ diagnosis.analysis_segments.early.games = 10
                  /\ diagnosis.analysis_segments.mid.games = 10
                  /\ diagnosis.analysis_segments.late.games = 10
                  /\ diagnosis.summary.total_games_analyzed = 30

C20_Witness ==
    /\ Done
    /\ Cardinality(DateSet(df)) = 30
    /\ WindowDates(early_df) \cup WindowDates(mid_df) \cup WindowDates(late_df)
          = DateSet(df)
    /\ diagnosis.analysis_segments.mid.games = 10
    /\ diagnosis.summary.total_games_analyzed = 30

\* the key the contract has genai configured with: the caller's when it is
\* non-empty, else the environment's
ContractKey == IF api_key \in {None, Some("")} THEN env_api_key ELSE api_key

\* C17: configure_gemini uses the api_key passed by the caller whenever it
\* is non-empty and falls back to the OPENAI_API_KEY environment variable
\* only when none is passed; when the resulting key is missing, empty or the
\* placeholder 'your_gemini_api_key_here' it raises a ValueError before the
\* LLM client is configured, so generate_season_narrative makes no request.
C17_KeyResolution ==
    /\ pc = "configure" => (genai_key = None /\ requests = <<>>)
    /\ pc \in {"generate", "returned", "raised"} =>
          IF ContractKey \in {None, Some(""), Some("your_gemini_api_key_here")}
          THEN /\ pc = "raised"
               /\ error.type = "ValueError"
               /\ genai_key = None
               /\ requests = <<>>
               /\ narrative = None
          ELSE /\ pc # "raised"
               /\ genai_key = ContractKey
               /\ \A i \in DOMAIN requests : requests[i].api_key = ContractKey
               /\ pc = "returned" => (Len(requests) = 1 /\ narrative # None)

C17_Witness ==
    /\ pc = "raised"
    /\ api_key = Some("")
    /\ env_api_key = Some("your_gemini_api_key_here")
    /\ error.type = "ValueError"
    /\ genai_key = None
    /\ requests = <<>>

WithEvent ==
    {j \in DOMAIN df.rows : df.rows[j]["events"] \notin {None, Some("null")}}

\* the play a moment was taken from (des identifies the play)
PlayOf(moment) == CHOOSE j \in DOMAIN df.rows : df.rows[j]["des"] = moment.description

\* the plays the returned moments were taken from
SelectedPlays == {PlayOf(moments[k]) : k \in DOMAIN moments}

\* play u has a strictly larger |delta_run_exp| than play v
LargerDelta(u, v) ==
    /\ "delta_run_exp" \in df.columns
    /\ df.rows[u]["delta_run_exp"] # None
    /\ df.rows[v]["delta_run_exp"] # None
    /\ Abs(Val(df.rows[u]["delta_run_exp"])) > Abs(Val(df.rows[v]["delta_run_exp"]))

\* the moments are in ascending order of their plays' at_bat_number
AtBatAscending ==
    \A k, l \in DOMAIN moments : k < l =>
        df.rows[PlayOf(moments[k])]["at_bat_number"]
            <= df.rows[PlayOf(moments[l])]["at_bat_number"]

\* the moments are distinct plays with an event, at most top_n of them
MomentsOfEvents ==
    /\ Len(moments) <= top_n
    /\ \A k \in DOMAIN moments :
          /\ moments[k].event \notin {None, Some("null")}
          /\ \E j \in WithEvent : moments[k] = Moment(df.rows[j])
    /\ Cardinality(SelectedPlays) = Len(moments)
    /\ SelectedPlays \subseteq WithEvent

\* C19, as the spec states it: ([], {}) when no play has an event; otherwise
\* at most top_n moments, each of a play with an event, no unselected play
\* with a strictly larger |delta_run_exp| than a selected one, in ascending
\* order of at_bat_number.
C19_KeyMomentsOfAllPlays ==
    pc = "extracted" =>
        IF WithEvent = {}
        THEN moments = <<>> /\ metadata = <<>>
        ELSE /\ MomentsOfEvents
             /\ \A u \in DOMAIN df.rows \ SelectedPlays, v \in SelectedPlays :
                   ~LargerDelta(u, v)
             /\ "at_bat_number" \in df.columns
             /\ AtBatAscending

\* C19, amended: ([], {}) when no play has an event; otherwise at most top_n
\* moments, each of a play with an event, no unselected play that has an
\* event with a strictly larger |delta_run_exp| than a selected one, and,
\* when the table has an at_bat_number column, in ascending order of
\* at_bat_number rather than of importance.
C19_KeyMomentsOfEvents ==
    pc = "extracted" =>
        IF WithEvent = {}
        THEN moments = <<>> /\ metadata = <<>>
        ELSE /\ MomentsOfEvents
             /\ moments # <<>>
             /\ \A u \in WithEvent \ SelectedPlays, v \in SelectedPlays :
                   ~LargerDelta(u, v)
             /\ "at_bat_number" \in df.columns => AtBatAscending

C19_Witness ==
    /\ pc = "extracted"
    /\ top_n = 2
    /\ df.columns = PlayColumns
    /\ Len(df.rows) = 3
    /\ WithEvent = {1, 2, 3}
    /\ df.rows[1]["at_bat_number"] = 3
    /\ df.rows[2]["delta_run_exp"] = Some(10)
    /\ SelectedPlays = {1, 3}
    /\ moments[1].description = <<"play", 1>>
    /\ moments[2].event = Some("single")

\* C22, as the spec states it: whenever the Early and Late avg_launch_speed
\* of the diagnosis are both non-null, the speed-change line of
\* generate_quick_summary reports a rise exactly when launch_speed_trend is
\* increasing, a drop exactly when it is decreasing, and stable exactly when
\* it is stable.
C22_SummaryAgreesWithTrend ==
    (/\ pc = "summarised"
     /\ diagnosis.analysis_segments.early.avg_launch_speed # None
     /\ diagnosis.analysis_segments.late.avg_launch_speed # None) =>
        LET label == diagnosis.summary.launch_speed_trend
            line == quick_summary.speed_change.kind
        IN  /\ line = "rise" <=> label = "increasing"
            /\ line = "drop" <=> label = "decreasing"
            /\ line = "stable" <=> label = "stable"

\* C23, as the spec states it: on the season-diagnosis page, after any
\* presses of the start and report buttons, an ai_report held in session
\* state and displayed was generated from the diagnosis (and season) held in
\* session state: it answers the last request, whose prompt is that of this
\* diagnosis.
C23_ReportOfHeldDiagnosis ==
    (pc = "page" /\ session_state.ai_report # None /\ display.ai_report # None) =>
        /\ requests # <<>>
        /\ requests[Len(requests)].prompt
              = AnalysisPrompt(session_state.diagnosis, Val(session_state.season))
        /\ display.diagnosis = session_state.diagnosis

StageOrder ==
    <<"lookup", "fetch", "slice", "aggregate_early", "aggregate_mid",
      "aggregate_late", "assemble">>

\* the locals the stages after the first k leave unset
UnsetAfter(k) ==
    /\ k < 1 => player_id = None
    /\ k < 2 => df = None
    /\ k < 3 => early_df = None /\ mid_df = None /\ late_df = None
    /\ k < 4 => early_metrics = None
    /\ k < 5 => mid_metrics = None
    /\ k < 6 => late_metrics = None
    /\ k < 7 => diagnosis = None

\* C10: the stages run in the order lookup, fetch, slice, the three
\* aggregations, assembly; an error raised by a stage (player not found, no
\* data, the slicer's insufficient sample with the observed game count)
\* reaches the caller as raised, no later stage runs, and no diagnosis is
\* returned; a diagnosis is returned only when every stage returned.
C10_StagesInOrder ==
    /\ Len(trace) <= Len(StageOrder)
    /\ trace = SubSeq(StageOrder, 1, Len(trace))
    /\ pc \notin {"raised", "done"} => (error = None /\ UnsetAfter(Len(trace)))
    /\ pc = "raised" =>
          /\ error # None
          /\ UnsetAfter(Len(trace) - 1)
          /\ trace[Len(trace)] = "lookup" =>
                (lookup = <<>> /\ error.msg = "player not found")
          /\ trace[Len(trace)] = "fetch" =>
                error.msg \in {"no data", "no regular season data"}
          /\ trace[Len(trace)] = "slice" =>
                /\ error.msg = "insufficient sample"
                /\ error.n_games = Cardinality(DateSet(df))
                /\ error.n_games < 30
          /\ trace[Len(trace)] \in {"aggregate_early", "aggregate_mid", "aggregate_late"} =>
                error.type = "KeyError"
    /\ Done =>
          /\ trace = StageOrder
          /\ error = None
          /\ lookup # <<>> /\ player_id = lookup[1]
          /\ Cardinality(DateSet(df)) >= 30
          /\ diagnosis.analysis_segments.early.segment = "Early"
          /\ diagnosis.analysis_segments.mid.segment = "Mid"
          /\ diagnosis.analysis_segments.late.segment = "Late"

C10_Witness ==
    /\ pc = "raised"
    /\ trace = <<"lookup", "fetch", "slice">>
    /\ error.n_games = 29
    /\ diagnosis = None

=============================================================================
